---- MODULE Spec2Model ----
(***************************************************************************)
(* Rating aggregation engine of the movie/TV server                        *)
(* (src/movie-tv-server/enhanced_api.py, class EnhancedMovieAPI).          *)
(*                                                                         *)
(* Numbers: an IMDb score is held in tenths (7.2 is 72), a Rotten Tomatoes *)
(* percentage NN and its rt/10 normalisation are then the same integer NN, *)
(* a Metacritic score is an integer 0..100.  A float difference is held in *)
(* thousandths of a tenth, so that the rounding error of the binary        *)
(* subtraction (one unit up or down) is visible to >= comparisons and is   *)
(* removed again by round(x, 1).                                           *)
(* Strings that the code parses are sequences of one-character strings.    *)
(***************************************************************************)
EXTENDS Integers, Sequences, FiniteSets, TLC

VARIABLES
    op,           \* the API method being executed, "none" when idle
    pc,           \* the provider call the method is suspended on
    min_mismatch, \* argument of find_rating_mismatches, in tenths
    todo,         \* find_rating_mismatches: search results still to examine
    mismatches,   \* find_rating_mismatches: the list built so far
    examined,     \* history: what each examined title's payload carried
    tmdb_data,    \* primary record of the title being enriched
    omdb_data,    \* secondary payload of the title being enriched
    enhanced,     \* the record built by get_enhanced_movie_details
    trakt,        \* community data collected by get_enhanced_movie_with_trakt
    calls,        \* provider calls answered during the current enrichment
    result,       \* what the API method returned (or raised)
    response,     \* what handle_call_tool gave back for the invocation
    args,         \* arguments of the discovery method being executed
    rules,        \* its rule set (mood profile, vibe rules, personality rules)
    filtered,     \* the list its filter has built so far
    decided,      \* history: the candidate the filter decided on last
    vibe,         \* find_vibe_movies: reference id, genres still to search,
                  \* recommendations collected
    tables,       \* get_mood_recommendations: the dict mood_profiles of the
                  \* current call (current) and, until the discover request
                  \* is answered, history: the one the call before it left
                  \* behind (earlier)
    submitted     \* a client has sent another tools/call request that the
                  \* server has not begun to handle

vars == <<op, pc, min_mismatch, todo, mismatches, examined, tmdb_data,
          omdb_data, enhanced, trakt, calls, result, response, args, rules,
          filtered, decided, vibe, tables, submitted>>

\* State of the discovery methods.
discovery == <<args, rules, filtered, decided, vibe>>

-----------------------------------------------------------------------------
(* Bounds *)

\* Longest search result list the provider returns.
MaxResults == 2

-----------------------------------------------------------------------------
(* Python values *)

None == [kind |-> "None"]

\* Slice [:10] of the search results.
SearchLimit == 10

Min(a, b) == IF a <= b THEN a ELSE b
Max(a, b) == IF a >= b THEN a ELSE b
Abs(x) == IF x >= 0 THEN x ELSE -x

\* d.get(k, default)
py_get(d, k, default) == IF k \in DOMAIN d THEN d[k] ELSE default

Digits == {"0", "1", "2", "3", "4", "5", "6", "7", "8", "9"}

DigitVal(c) ==
    CASE c = "0" -> 0 [] c = "1" -> 1 [] c = "2" -> 2 [] c = "3" -> 3
      [] c = "4" -> 4 [] c = "5" -> 5 [] c = "6" -> 6 [] c = "7" -> 7
      [] c = "8" -> 8 [] c = "9" -> 9

IsDigits(s) == Len(s) > 0 /\ \A i \in 1..Len(s) : s[i] \in Digits

RECURSIVE DecVal(_)
DecVal(s) ==
    IF Len(s) = 0 THEN 0
    ELSE 10 * DecVal(SubSeq(s, 1, Len(s) - 1)) + DigitVal(s[Len(s)])

\* int(s): the value of a decimal literal, ValueError otherwise.
py_int(s) ==
    IF IsDigits(s) THEN [ok |-> TRUE, v |-> DecVal(s)]
    ELSE [ok |-> FALSE, v |-> 0]

\* s.replace(c, '')
py_replace(s, c) == SelectSeq(s, LAMBDA x : x # c)

\* Position of the first c in s, Len(s) + 1 when there is none.
RECURSIVE FirstPos(_, _, _)
FirstPos(s, c, i) ==
    IF i > Len(s) THEN i
    ELSE IF s[i] = c THEN i
    ELSE FirstPos(s, c, i + 1)

\* s.split(c)[0]
py_split0(s, c) == SubSeq(s, 1, FirstPos(s, c, 1) - 1)

\* float(s) in tenths for a literal "I", "I." or "I.F" with one fractional
\* digit (the format OMDb publishes imdbRating in); ValueError for a string
\* that is not a decimal literal.
py_float(s) ==
    LET dot  == FirstPos(s, ".", 1)
        ip   == SubSeq(s, 1, dot - 1)
        fp   == SubSeq(s, dot + 1, Len(s))
    IN  IF IsDigits(ip) /\ (Len(fp) = 0 \/ (IsDigits(fp) /\ Len(fp) = 1))
        THEN [ok |-> TRUE, v |-> 10 * DecVal(ip) + DecVal(fp)]
        ELSE [ok |-> FALSE, v |-> 0]

\* Pairs (a, b) of tenths whose double-precision difference a - b lies just
\* above, respectively just below, the exact decimal difference
\* (6.0 - 8.7 = -2.6999999999999993, 7.2 - 8.7 = -1.4999999999999991,
\*  9.0 - 8.7 = 0.3000000000000007, 7.2 - 7.5 = -0.2999999999999998).
FloatAbove == {<<60, 87>>, <<72, 87>>, <<90, 87>>, <<72, 75>>}
FloatBelow == {}

\* a - b on doubles, in thousandths of a tenth.
FloatSub(a, b) ==
    1000 * (a - b) + (IF <<a, b>> \in FloatAbove THEN 1
                      ELSE IF <<a, b>> \in FloatBelow THEN -1 ELSE 0)

\* round(x, 1) of a non-negative difference, back in tenths.
round1(x) == (x + 500) \div 1000

-----------------------------------------------------------------------------
(* Provider clients *)

\* What the HTTP layer can give for one request.
Failures == {[kind |-> "transport_error"], [kind |-> "http_status"]}

Ok(json) == [kind |-> "ok", json |-> json]

\* _make_tmdb_request: the JSON body, None on RequestException.
_make_tmdb_request(wire) ==
    IF wire.kind = "ok" THEN wire.json ELSE None

\* _make_trakt_request: the JSON body, None on RequestException.
_make_trakt_request(wire) ==
    IF wire.kind = "ok" THEN wire.json ELSE None

\* _make_omdb_request without the check of the Response flag.
_make_omdb_request_noflag(wire) ==
    IF wire.kind = "ok" THEN wire.json ELSE None

\* _make_omdb_request: the JSON body, None on RequestException and None
\* when the body carries Response == 'False'.
_make_omdb_request(wire) ==
    IF wire.kind = "ok"
    THEN IF wire.json.Response = "False" THEN None ELSE wire.json
    ELSE None

-----------------------------------------------------------------------------
(* Rating normalisation and analysis *)

\* source.lower() for the source names OMDb uses.
py_lower(source) ==
    CASE source = "Rotten Tomatoes" -> "rotten tomatoes"
      [] source = "Metacritic" -> "metacritic"
      [] source = "Internet Movie Database" -> "internet movie database"
      [] OTHER -> source

\* The loop over omdb_data['Ratings'] from entry i on; int() may raise.
RECURSIVE ScanRatings(_, _, _)
ScanRatings(rs, i, ratings) ==
    IF i > Len(rs) THEN [raised |-> FALSE, ratings |-> ratings]
    ELSE LET source == py_lower(rs[i].Source)
             value  == rs[i].Value
         IN  IF source = "rotten tomatoes"
             THEN LET n == py_int(py_replace(value, "%"))
                  IN  IF n.ok
                      THEN ScanRatings(rs, i + 1,
                               [ratings EXCEPT !.rotten_tomatoes = n.v])
                      ELSE [raised |-> TRUE, ratings |-> ratings]
             ELSE IF source = "metacritic"
             THEN LET n == py_int(py_split0(value, "/"))
                  IN  IF n.ok
                      THEN ScanRatings(rs, i + 1,
                               [ratings EXCEPT !.metacritic = n.v])
                      ELSE [raised |-> TRUE, ratings |-> ratings]
             ELSE ScanRatings(rs, i + 1, ratings)

\* _combine_ratings: every field starts at 0; a ValueError of float() or
\* int() leaves the function.
_combine_ratings(tmdb, omdb) ==
    LET start == [tmdb |-> tmdb.vote_average, imdb |-> 0,
                  rotten_tomatoes |-> 0, metacritic |-> 0]
    IN  IF omdb = None THEN [raised |-> FALSE, ratings |-> start]
        ELSE LET imdb_rating == py_get(omdb, "imdbRating", <<>>)
                 Ratings     == py_get(omdb, "Ratings", <<>>)
             IN  IF imdb_rating # <<>> /\ imdb_rating # <<"N", "/", "A">>
                 THEN LET f == py_float(imdb_rating)
                      IN  IF f.ok
                          THEN ScanRatings(Ratings, 1,
                                           [start EXCEPT !.imdb = f.v])
                          ELSE [raised |-> TRUE, ratings |-> start]
                 ELSE ScanRatings(Ratings, 1, start)

\* _analyze_ratings with the direction of the gap taken the wrong way round.
_analyze_ratings_swapped(ratings) ==
    LET imdb == ratings.imdb
        rt   == ratings.rotten_tomatoes
        imdb_rt_diff == FloatSub(imdb, rt)
    IN  IF imdb = 0 /\ rt = 0 /\ ratings.metacritic = 0
        THEN "OMDb data not available"
        ELSE IF imdb >= 85 THEN "Highly acclaimed (IMDb 8.5+)"
        ELSE IF rt > 0 /\ imdb > 0
        THEN IF Abs(imdb_rt_diff) >= 15000
             THEN IF imdb_rt_diff < 0
                  THEN "Audiences love it more than critics"
                  ELSE "Critics love it more than audiences"
             ELSE "Critics and audiences generally agree"
        ELSE "Standard rating distribution"

\* _analyze_ratings with the gap rule tried before the 8.5 rule.
_analyze_ratings_gapfirst(ratings) ==
    LET imdb == ratings.imdb
        rt   == ratings.rotten_tomatoes
        imdb_rt_diff == FloatSub(imdb, rt)
    IN  IF imdb = 0 /\ rt = 0 /\ ratings.metacritic = 0
        THEN "OMDb data not available"
        ELSE IF rt > 0 /\ imdb > 0
        THEN IF Abs(imdb_rt_diff) >= 15000
             THEN IF imdb_rt_diff > 0
                  THEN "Audiences love it more than critics"
                  ELSE "Critics love it more than audiences"
             ELSE IF imdb >= 85 THEN "Highly acclaimed (IMDb 8.5+)"
             ELSE "Critics and audiences generally agree"
        ELSE IF imdb >= 85 THEN "Highly acclaimed (IMDb 8.5+)"
        ELSE "Standard rating distribution"

\* _analyze_ratings: one label, the first whose condition holds.
_analyze_ratings(ratings) ==
    LET imdb == ratings.imdb
        rt   == ratings.rotten_tomatoes
        imdb_rt_diff == FloatSub(imdb, rt)
    IN  IF imdb = 0 /\ rt = 0 /\ ratings.metacritic = 0
        THEN "OMDb data not available"
        ELSE IF imdb >= 85 THEN "Highly acclaimed (IMDb 8.5+)"
        ELSE IF rt > 0 /\ imdb > 0
        THEN IF Abs(imdb_rt_diff) >= 15000
             THEN IF imdb_rt_diff > 0
                  THEN "Audiences love it more than critics"
                  ELSE "Critics love it more than audiences"
             ELSE "Critics and audiences generally agree"
        ELSE "Standard rating distribution"

\* A secondary lookup for every primary record, with or without an IMDb id.
HasImdbId_always(tmdb) == TRUE

\* if tmdb_data.get('imdb_id'): the secondary lookup is by IMDb id only.
HasImdbId(tmdb) == tmdb.imdb_id # ""

\* get_enhanced_movie_details after both provider answers are in.
BuildEnhanced(tmdb, omdb) ==
    LET c == _combine_ratings(tmdb, omdb)
        base == [omdb_data |-> omdb,
                 enhanced_ratings |-> c.ratings,
                 rating_analysis |-> _analyze_ratings(c.ratings)] @@ tmdb
    IN  IF c.raised THEN [kind |-> "raise", exc |-> "ValueError"]
        ELSE IF omdb # None
        THEN [kind |-> "dict",
              value |-> base @@ [awards |-> py_get(omdb, "Awards", "N/A"),
                                 box_office |->
                                     py_get(omdb, "BoxOffice", "N/A"),
                                 detailed_plot |->
                                     py_get(omdb, "Plot", "N/A")]]
        ELSE [kind |-> "dict", value |-> base]

-----------------------------------------------------------------------------
(* analyze_movie_vibe *)

\* The award texts the secondary provider publishes, and which of the words
\* the code looks for each of them contains.
Substrings ==
    {<<"N/A", "N/A">>,
     <<"Oscar", "Won 2 Oscars. 160 wins total">>,
     <<"Emmy", "Won 3 Primetime Emmys. 12 wins total">>,
     <<"Golden Globe", "Won 1 Golden Globe. 5 wins total">>}

\* word in text
py_in(word, text) == <<word, text>> \in Substrings

\* [g['name'] for g in d.get('genres', [])]
GenreNames(d) ==
    LET genres == py_get(d, "genres", <<>>)
    IN  {genres[i].name : i \in 1..Len(genres)}

\* _determine_mood_profile with the genre rules tried before the awards.
_determine_mood_profile_genrefirst(ratings, genres, awards) ==
    IF "Comedy" \in genres /\ ratings.imdb >= 70
    THEN "Feel-good entertainment"
    ELSE IF "Horror" \in genres /\ ratings.rotten_tomatoes >= 80
    THEN "Smart scary"
    ELSE IF "Action" \in genres /\ ratings.rotten_tomatoes > ratings.imdb
    THEN "Stylish thrills"
    ELSE IF ~py_in("N/A", awards)
            /\ (py_in("Oscar", awards) \/ py_in("Emmy", awards))
    THEN IF ratings.imdb >= 75 THEN "Prestige entertainment"
         ELSE "Acclaimed but challenging"
    ELSE IF ratings.metacritic >= 75 THEN "Thoughtful and rewarding"
    ELSE "Solid entertainment"

\* _determine_mood_profile: the first rule that matches, the awards rule
\* first.
_determine_mood_profile(ratings, genres, awards) ==
    IF ~py_in("N/A", awards)
       /\ (py_in("Oscar", awards) \/ py_in("Emmy", awards))
    THEN IF ratings.imdb >= 75 THEN "Prestige entertainment"
         ELSE "Acclaimed but challenging"
    ELSE IF "Comedy" \in genres /\ ratings.imdb >= 70
    THEN "Feel-good entertainment"
    ELSE IF "Horror" \in genres /\ ratings.rotten_tomatoes >= 80
    THEN "Smart scary"
    ELSE IF "Action" \in genres /\ ratings.rotten_tomatoes > ratings.imdb
    THEN "Stylish thrills"
    ELSE IF ratings.metacritic >= 75 THEN "Thoughtful and rewarding"
    ELSE "Solid entertainment"

_suggest_viewing_time(runtime, genres, ratings) ==
    IF runtime <= 100 /\ genres \cap {"Comedy", "Animation", "Family"} # {}
    THEN "Perfect for any time"
    ELSE IF runtime >= 150 \/ "Drama" \in genres
    THEN "Weekend afternoon or evening"
    ELSE IF genres \cap {"Horror", "Thriller"} # {}
            /\ ratings.metacritic >= 70
    THEN "Late night viewing"
    ELSE IF "Action" \in genres THEN "Friday night entertainment"
    ELSE "Weekend afternoon"

_calculate_accessibility(ratings) ==
    LET score == 5
                 + (IF ratings.imdb >= 75 THEN 2 ELSE 0)
                 + (IF ratings.imdb > ratings.rotten_tomatoes THEN 1 ELSE 0)
                 + (IF ratings.rotten_tomatoes >= 85 THEN 1 ELSE 0)
    IN  Min(10, Max(1, score))

\* _calculate_prestige without min(10, max(1, score)).
_calculate_prestige_unclamped(ratings, awards) ==
    5
    + (IF ratings.metacritic >= 80 THEN 2 ELSE 0)
    + (IF ratings.rotten_tomatoes >= 90 THEN 1 ELSE 0)
    + (IF py_in("Oscar", awards) \/ py_in("Emmy", awards) THEN 2 ELSE 0)
    + (IF ratings.rotten_tomatoes > ratings.imdb THEN 1 ELSE 0)

_calculate_prestige(ratings, awards) ==
    LET score == 5
                 + (IF ratings.metacritic >= 80 THEN 2 ELSE 0)
                 + (IF ratings.rotten_tomatoes >= 90 THEN 1 ELSE 0)
                 + (IF py_in("Oscar", awards) \/ py_in("Emmy", awards)
                    THEN 2 ELSE 0)
                 + (IF ratings.rotten_tomatoes > ratings.imdb THEN 1 ELSE 0)
    IN  Min(10, Max(1, score))

\* The vibe tags in the order the code appends them.
VibeTags(ratings, genres) ==
    (IF ratings.metacritic >= 75 THEN <<"cerebral">> ELSE <<>>)
    \o (IF ratings.imdb >= ratings.rotten_tomatoes
        THEN <<"accessible">> ELSE <<>>)
    \o (IF ratings.imdb >= 75 THEN <<"crowd-pleasing">> ELSE <<>>)
    \o (IF "Drama" \in genres /\ ratings.metacritic >= 70
        THEN <<"thoughtful">> ELSE <<>>)

\* analyze_movie_vibe once get_enhanced_movie_details has returned the
\* record details.
analyze_movie_vibe(details) ==
    LET ratings == details.enhanced_ratings
        genres  == GenreNames(details)
        runtime == py_get(details, "runtime", 0)
        awards  == py_get(details, "awards", "")
    IN  [title |-> details.title,
         vibe_tags |-> VibeTags(ratings, genres),
         mood_profile |-> _determine_mood_profile(ratings, genres, awards),
         best_time |-> _suggest_viewing_time(runtime, genres, ratings),
         rating_personality |-> details.rating_analysis,
         accessibility_score |-> _calculate_accessibility(ratings),
         prestige_score |-> _calculate_prestige(ratings, awards)]

-----------------------------------------------------------------------------
(* get_mood_recommendations *)

\* genre_map: the provider's id of a genre name; a name that is not in the
\* map has none.
genre_map ==
    [Action |-> 28, Adventure |-> 12, Animation |-> 16, Comedy |-> 35,
     Crime |-> 80, Documentary |-> 99, Drama |-> 18, Family |-> 10751,
     Fantasy |-> 14, History |-> 36, Horror |-> 27, Music |-> 10402,
     Mystery |-> 9648, Romance |-> 10749, Thriller |-> 53, War |-> 10752,
     Western |-> 37] @@ ("Science Fiction" :> 878) @@ ("TV Movie" :> 10770)

\* [genre_map.get(g) for g in names if genre_map.get(g)]
GenreIds(names) ==
    LET known == SelectSeq(names, LAMBDA g : g \in DOMAIN genre_map)
    IN  [i \in 1..Len(known) |-> genre_map[known[i]]]

\* The year datetime.now().year - 2 stands for.
NotTooRecent == "two years before this year"

\* mood_profiles.get(mood, {}): scores in tenths.
mood_profiles(mood) ==
    CASE mood = "cozy" ->
             [imdb_min |-> 75, runtime_max |-> 120,
              include_genres |-> <<"Comedy", "Romance", "Family",
                                   "Animation">>,
              exclude_genres |-> <<"Horror", "Thriller", "War">>]
      [] mood = "energetic" ->
             [include_genres |-> <<"Action", "Adventure", "Comedy">>,
              rt_critics_preference |-> TRUE, runtime_min |-> 90]
      [] mood = "thoughtful" ->
             [metacritic_min |-> 70,
              include_genres |-> <<"Drama", "Science Fiction", "Mystery">>,
              awards_preferred |-> TRUE]
      [] mood = "comfort" ->
             [imdb_min |-> 75, familiar_genres |-> TRUE,
              release_year_max |-> NotTooRecent]
      [] OTHER -> <<>>

\* time_modifiers.get(time_context, {})
time_modifiers(time_context) ==
    CASE time_context = "morning" ->
             [runtime_max |-> 120, light_content |-> TRUE]
      [] time_context = "late_night" ->
             [metacritic_min |-> 65, thoughtful_content |-> TRUE]
      [] time_context = "weekend" ->
             [any_length |-> TRUE, entertainment_value_high |-> TRUE]
      [] OTHER -> <<>>

\* The keys of mood_profiles.
KnownMoods == {"cozy", "energetic", "thoughtful", "comfort"}

\* No call of get_mood_recommendations has left a table.
NoTables == [earlier |-> None, current |-> None]

\* A table that get_mood_recommendations shares between its calls: the
\* one an earlier call left, when there is one.
NewTable_shared(old) ==
    IF old = None THEN [m \in KnownMoods |-> mood_profiles(m)] ELSE old

\* mood_profiles = {...}: every call binds the name to a new dict built
\* from the literal; the dict old of an earlier call is not read.
NewTable(old) == [m \in KnownMoods |-> mood_profiles(m)]

\* profile = mood_profiles.get(mood, {}); profile.update(time_mod) on the
\* dict table: the profile the call searches with, and the table after the
\* update, which changes the entry of the mood in place.
profile_update(table, mood, time_context) ==
    LET profile == py_get(table, mood, <<>>)
        updated == IF time_context # ""
                   THEN time_modifiers(time_context) @@ profile
                   ELSE profile
    IN  [profile |-> updated,
         table |-> IF mood \in DOMAIN table
                   THEN [table EXCEPT ![mood] = updated] ELSE table]

\* The profile get_mood_recommendations searches with: profile.update
\* lets the keys of the time modifier replace those of the mood.
MoodProfile(mood, time_context) ==
    IF time_context # ""
    THEN time_modifiers(time_context) @@ mood_profiles(mood)
    ELSE mood_profiles(mood)

\* The genre parameters _search_by_mood_profile gives the discover request.
MoodParams(profile) ==
    [with_genres |-> GenreIds(py_get(profile, "include_genres", <<>>)),
     without_genres |-> GenreIds(py_get(profile, "exclude_genres", <<>>))]

\* The first part of the loop body of _filter_by_mood_criteria: TRUE when
\* light_content makes the loop continue with the next movie.
TooDark(movie, profile) ==
    /\ py_get(profile, "light_content", FALSE)
    /\ GenreNames(movie) \cap {"Horror", "War", "Crime"} # {}

\* The awards part: TRUE when the loop continues with the next movie, e
\* being what get_enhanced_movie_details returned.
NoAwards(e) == e # None /\ py_get(e.value, "awards", "N/A") = "N/A"

\* The familiar_genres part: TRUE when the loop continues.
Unfamiliar(movie, profile) ==
    /\ py_get(profile, "familiar_genres", FALSE)
    /\ GenreNames(movie) \cap {"Comedy", "Drama", "Action", "Romance"} = {}

-----------------------------------------------------------------------------
(* find_vibe_movies *)

\* if len(filtered_movies) >= 10: break
AdvancedLimit == 10

\* _get_vibe_modifier_rules with the empty rule for a modifier it does not
\* know.
_get_vibe_modifier_rules_empty(vibe_modifier, ref_ratings) ==
    CASE vibe_modifier = "accessible" ->
             [imdb_min |-> Max(70, ref_ratings.imdb - 10),
              imdb_audience_preference |-> TRUE, runtime_max |-> 140]
      [] vibe_modifier = "grounded" ->
             [imdb_min |-> 65, rt_imdb_gap_max |-> 10,
              exclude_genres |-> <<"Fantasy", "Science Fiction">>]
      [] vibe_modifier = "cerebral" ->
             [metacritic_min |-> 70, rt_critics_preference |-> TRUE,
              include_genres |-> <<"Drama", "Thriller", "Science Fiction">>]
      [] vibe_modifier = "crowd_pleasing" ->
             [imdb_min |-> 75, imdb_audience_preference |-> TRUE,
              exclude_genres |-> <<"Documentary", "Foreign">>]
      [] vibe_modifier = "challenging" ->
             [metacritic_min |-> 75, rt_critics_preference |-> TRUE,
              include_genres |-> <<"Drama", "Mystery", "Thriller">>]
      [] OTHER -> <<>>

\* _get_vibe_modifier_rules: scores in tenths.
_get_vibe_modifier_rules(vibe_modifier, ref_ratings) ==
    CASE vibe_modifier = "accessible" ->
             [imdb_min |-> Max(70, ref_ratings.imdb - 10),
              imdb_audience_preference |-> TRUE, runtime_max |-> 140]
      [] vibe_modifier = "grounded" ->
             [imdb_min |-> 65, rt_imdb_gap_max |-> 10,
              exclude_genres |-> <<"Fantasy", "Science Fiction">>]
      [] vibe_modifier = "cerebral" ->
             [metacritic_min |-> 70, rt_critics_preference |-> TRUE,
              include_genres |-> <<"Drama", "Thriller", "Science Fiction">>]
      [] vibe_modifier = "crowd_pleasing" ->
             [imdb_min |-> 75, imdb_audience_preference |-> TRUE,
              exclude_genres |-> <<"Documentary", "Foreign">>]
      [] vibe_modifier = "challenging" ->
             [metacritic_min |-> 75, rt_critics_preference |-> TRUE,
              include_genres |-> <<"Drama", "Mystery", "Thriller">>]
      [] OTHER ->
             [imdb_min |-> ref_ratings.imdb - 5,
              similar_rating_profile |-> TRUE]

\* The genre parameters _search_by_genre_and_criteria gives the discover
\* request: include_genres replaces the genre asked for.
VibeParams(genre, criteria) ==
    LET include_ids == GenreIds(py_get(criteria, "include_genres", <<>>))
    IN  [with_genres |-> IF include_ids # <<>> THEN include_ids
                         ELSE IF genre \in DOMAIN genre_map
                         THEN <<genre_map[genre]>> ELSE <<>>,
         without_genres |->
             GenreIds(py_get(criteria, "exclude_genres", <<>>))]

\* The body of the loop of _filter_by_advanced_criteria for a movie whose
\* enrichment gave the record enhanced: TRUE when the movie is appended.
AdvancedKeeps(enhanced_value, criteria) ==
    LET ratings == enhanced_value.enhanced_ratings
        imdb    == ratings.imdb
        rt      == ratings.rotten_tomatoes
        gap_max == py_get(criteria, "rt_imdb_gap_max", 0)
        metacritic_min == py_get(criteria, "metacritic_min", 0)
    IN  /\ ~(py_get(criteria, "imdb_audience_preference", FALSE)
             /\ rt > 0 /\ imdb < rt)
        /\ ~(py_get(criteria, "rt_critics_preference", FALSE)
             /\ rt > 0 /\ imdb >= rt)
        /\ ~(gap_max # 0 /\ rt > 0
             /\ Abs(FloatSub(imdb, rt)) > 1000 * gap_max)
        /\ ~(metacritic_min # 0 /\ ratings.metacritic < metacritic_min)

\* The loop without seen_ids.add: only the ids seen at the start are
\* removed.
RECURSIVE Unique_noadd(_, _)
Unique_noadd(recommendations, seen_ids) ==
    IF recommendations = <<>> THEN <<>>
    ELSE IF Head(recommendations).id \in seen_ids
    THEN Unique_noadd(Tail(recommendations), seen_ids)
    ELSE <<Head(recommendations)>>
         \o Unique_noadd(Tail(recommendations), seen_ids)

\* The loop that removes duplicates and the ids already seen.
RECURSIVE Unique(_, _)
Unique(recommendations, seen_ids) ==
    IF recommendations = <<>> THEN <<>>
    ELSE IF Head(recommendations).id \in seen_ids
    THEN Unique(Tail(recommendations), seen_ids)
    ELSE <<Head(recommendations)>>
         \o Unique(Tail(recommendations),
                   seen_ids \cup {Head(recommendations).id})

\* ref_genres[:2]
TopGenres(details) ==
    LET genres == py_get(details, "genres", <<>>)
    IN  [k \in 1..Min(2, Len(genres)) |-> genres[k].name]

-----------------------------------------------------------------------------
(* find_rating_personality *)

\* if len(filtered_movies) >= 15: break
PersonalityLimit == 15

\* personality_rules.get(personality_type, {}): scores in tenths.
personality_rules(personality_type) ==
    CASE personality_type = "critics_darling" ->
             [rt_critics_much_higher |-> TRUE, metacritic_min |-> 75,
              min_gap |-> 15]
      [] personality_type = "crowd_pleaser" ->
             [imdb_much_higher |-> TRUE, imdb_min |-> 75, min_gap |-> 15]
      [] personality_type = "universal_acclaim" ->
             [imdb_min |-> 80, rt_min |-> 85, metacritic_min |-> 80]
      [] personality_type = "cult_classic" ->
             [rt_max |-> 70, imdb_min |-> 75, age_min |-> 5]
      [] personality_type = "prestige_accessible" ->
             [awards_required |-> TRUE, imdb_min |-> 75,
              metacritic_min |-> 70]
      [] OTHER -> <<>>

\* The body of the loop of _filter_by_personality_pattern for a movie whose
\* enrichment gave the record enhanced: TRUE when the movie is appended.
PersonalityKeeps(enhanced_value, rule_set) ==
    LET ratings  == enhanced_value.enhanced_ratings
        gap      == FloatSub(ratings.imdb, ratings.rotten_tomatoes)
        min_gap  == 1000 * py_get(rule_set, "min_gap", 15)
        imdb_min == py_get(rule_set, "imdb_min", 0)
        rt_min   == py_get(rule_set, "rt_min", 0)
        rt_max   == py_get(rule_set, "rt_max", 0)
        metacritic_min == py_get(rule_set, "metacritic_min", 0)
        awards   == py_get(enhanced_value, "awards", "N/A")
    IN  /\ ratings.imdb > 0 /\ ratings.rotten_tomatoes > 0
        /\ ~(py_get(rule_set, "rt_critics_much_higher", FALSE)
             /\ gap >= -min_gap)
        /\ ~(py_get(rule_set, "imdb_much_higher", FALSE) /\ gap <= min_gap)
        /\ ~(imdb_min # 0 /\ ratings.imdb < imdb_min)
        /\ ~(rt_min # 0 /\ ratings.rotten_tomatoes < rt_min)
        /\ ~(rt_max # 0 /\ ratings.rotten_tomatoes > rt_max)
        /\ ~(metacritic_min # 0 /\ ratings.metacritic < metacritic_min)
        /\ ~(py_get(rule_set, "awards_required", FALSE)
             /\ (\/ py_in("N/A", awards)
                 \/ ~\E word \in {"Oscar", "Emmy", "Golden Globe"} :
                        py_in(word, awards)))
        /\ (imdb_min # 0 /\ rt_min # 0 /\ metacritic_min # 0) =>
              /\ ratings.imdb >= imdb_min
              /\ ratings.rotten_tomatoes >= rt_min
              /\ ratings.metacritic >= metacritic_min

-----------------------------------------------------------------------------
(* find_rating_mismatches *)

\* An insertion in front of the elements with an equal key: what sorting
\* ascending and reversing the list does to ties.
RECURSIVE InsertDesc_ties(_, _)
InsertDesc_ties(x, s) ==
    IF s = <<>> THEN <<x>>
    ELSE IF Head(s).mismatch_degree > x.mismatch_degree
    THEN <<Head(s)>> \o InsertDesc_ties(x, Tail(s))
    ELSE <<x>> \o s

\* x goes behind every element whose key is >= its own: elements with equal
\* keys keep the order in which they were inserted.
RECURSIVE InsertDesc(_, _)
InsertDesc(x, s) ==
    IF s = <<>> THEN <<x>>
    ELSE IF Head(s).mismatch_degree >= x.mismatch_degree
    THEN <<Head(s)>> \o InsertDesc(x, Tail(s))
    ELSE <<x>> \o s

\* sorted(mismatches, key=mismatch_degree, reverse=True): a stable sort.
RECURSIVE sorted_desc(_)
sorted_desc(s) ==
    IF s = <<>> THEN <<>>
    ELSE InsertDesc(s[Len(s)], sorted_desc(SubSeq(s, 1, Len(s) - 1)))

\* The guard with >= 0 in place of > 0.
BothScores_ge(ratings) == ratings.imdb >= 0 /\ ratings.rotten_tomatoes >= 0

\* if ratings['imdb'] > 0 and ratings['rotten_tomatoes'] > 0
BothScores(ratings) == ratings.imdb > 0 /\ ratings.rotten_tomatoes > 0

\* The loop body for one search result whose enrichment succeeded.
AppendMismatch(list, movie, enh, min_gap) ==
    LET ratings  == enh.enhanced_ratings
        mismatch == Abs(FloatSub(ratings.imdb, ratings.rotten_tomatoes))
    IN  IF BothScores(ratings) /\ mismatch >= 1000 * min_gap
        THEN Append(list, [title |-> movie.title,
                           imdb_rating |-> ratings.imdb,
                           rotten_tomatoes |-> ratings.rotten_tomatoes,
                           mismatch_degree |-> round1(mismatch),
                           analysis |-> enh.rating_analysis])
        ELSE list

-----------------------------------------------------------------------------
(* Community data *)

positive_words == {"love", "amazing", "brilliant", "perfect", "fantastic",
                   "incredible", "masterpiece"}
negative_words == {"hate", "terrible", "awful", "boring", "disappointing",
                   "waste", "bad"}
vibe_words == <<"cozy", "dark", "funny", "intense", "relaxing", "thrilling",
                "emotional", "uplifting">>

\* The words of all comments joined; a comment is the set of its words.
RECURSIVE all_text(_)
all_text(comments) ==
    IF comments = <<>> THEN {}
    ELSE Head(comments).comment \cup all_text(Tail(comments))

\* _analyze_trakt_comments
_analyze_trakt_comments(comments) ==
    IF comments = <<>>
    THEN [sentiment |-> "neutral", common_themes |-> <<>>,
          user_vibe |-> "unknown"]
    ELSE LET text == all_text(comments)
             positive_count == Cardinality(positive_words \cap text)
             negative_count == Cardinality(negative_words \cap text)
             found_vibes == SelectSeq(vibe_words, LAMBDA w : w \in text)
         IN  [sentiment |-> IF positive_count > negative_count
                            THEN "positive"
                            ELSE IF negative_count > positive_count
                            THEN "negative" ELSE "neutral",
              common_themes |-> found_vibes,
              user_vibe |-> IF found_vibes # <<>> THEN Head(found_vibes)
                            ELSE "standard",
              engagement_level |-> Len(comments)]

\* get_trakt_movie_stats: the body, None when the call failed.
get_trakt_movie_stats(wire) == _make_trakt_request(wire)

\* A list getter that returns [] whatever the provider sent.
get_trakt_list_drop(wire) == <<>>

\* get_trakt_movie_comments / get_trakt_similar_movies: the list, [] when
\* the call failed or the list is empty.
get_trakt_list(wire) ==
    LET r == _make_trakt_request(wire)
    IN  IF r = None THEN <<>> ELSE r.items

-----------------------------------------------------------------------------
(* Weather server *)

\* WeatherAPI.get_current_weather once the HTTP layer has given wire: a
\* RequestException (the 10 s timeout included) and a KeyError become an
\* error dict, an empty 'weather' list raises IndexError.
get_current_weather(wire) ==
    IF wire.kind # "ok"
    THEN [kind |-> "dict",
          value |-> [success |-> FALSE,
                     error |-> "Failed to fetch weather data"]]
    ELSE IF "name" \notin DOMAIN wire.json
    THEN [kind |-> "dict",
          value |-> [success |-> FALSE,
                     error |-> "Unexpected weather data format"]]
    ELSE IF wire.json.weather = <<>>
    THEN [kind |-> "raise", exc |-> "IndexError"]
    ELSE [kind |-> "dict",
          value |-> [success |-> TRUE, location |-> wire.json.name,
                     description |-> wire.json.weather[1]]]

-----------------------------------------------------------------------------
(* Tool dispatch *)

\* The one-element list of TextContent a handler returns.
TextContent(text) ==
    [kind |-> "return", content |-> <<[type |-> "text", text |-> text]>>]

\* if result: of a handler, for what an API method returned.
Truthy(res) ==
    \/ res.kind = "dict" /\ DOMAIN res.value # {}
    \/ res.kind = "list" /\ res.value # <<>>

\* handle_call_tool without its except clause.
handle_call_tool_noexcept(name, res) ==
    IF name = "unknown" THEN TextContent("Unknown tool")
    ELSE IF res.kind = "raise" THEN res
    ELSE IF name = "weather"
    THEN IF res.value.success THEN TextContent("Current Weather")
         ELSE TextContent("Error getting current weather")
    ELSE IF Truthy(res) THEN TextContent("formatted")
    ELSE TextContent("not found")

\* handle_call_tool of either server, res being what the API method of the
\* tool returned or raised: the formatted result, the not-found text, the
\* unknown-tool text, or the text of the except clause.
handle_call_tool(name, res) ==
    IF name = "unknown" THEN TextContent("Unknown tool")
    ELSE IF res.kind = "raise" THEN TextContent("Error executing")
    ELSE IF name = "weather"
    THEN IF res.value.success THEN TextContent("Current Weather")
         ELSE TextContent("Error getting current weather")
    ELSE IF Truthy(res) THEN TextContent("formatted")
    ELSE TextContent("not found")

-----------------------------------------------------------------------------
(* What the providers can answer *)

NA == <<"N", "/", "A">>

\* imdbRating: the key missing (<<>>: None and '' are both falsy), 'N/A',
\* a string that is no number, and scores.
ImdbRaw == {<<>>, NA, <<"a", "b", "c">>, <<"6", ".", "0">>,
            <<"7", ".", "2">>, <<"9", ".", "0">>}

\* The Rotten Tomatoes entry of Ratings: <<>> stands for no entry.
RtRaw == {<<>>, NA, <<"0", "%">>, <<"4", "0", "%">>, <<"8", "7", "%">>,
          <<"9", "5", "%">>}

\* The Metacritic entry of Ratings: <<>> stands for no entry.
McRaw == {<<>>, <<"8", "0", "/", "1", "0", "0">>}

AwardsRaw == {"N/A", "Won 2 Oscars. 160 wins total"}

VoteAverages == {45, 86}

RatingsList(r, m) ==
    <<[Source |-> "Internet Movie Database",
       Value |-> <<"8", ".", "0", "/", "1", "0">>]>>
    \o (IF r = <<>> THEN <<>>
        ELSE <<[Source |-> "Rotten Tomatoes", Value |-> r]>>)
    \o (IF m = <<>> THEN <<>>
        ELSE <<[Source |-> "Metacritic", Value |-> m]>>)

OmdbPayloads ==
    {[Response |-> "True", imdbRating |-> i, Ratings |-> RatingsList(r, m),
      Awards |-> a, BoxOffice |-> "N/A", Plot |-> "plot"] :
        i \in ImdbRaw, r \in RtRaw, m \in McRaw, a \in AwardsRaw}

OmdbWires ==
    Failures
    \cup {Ok([Response |-> "False", Error |-> "Movie not found!"])}
    \cup {Ok(p) : p \in OmdbPayloads}

\* The payloads the discovery methods are run on: critic scores on both
\* sides of every threshold of their rules, and every kind of award text.
RtRawD == {<<>>, <<"4", "0", "%">>, <<"7", "5", "%">>, <<"8", "7", "%">>,
           <<"9", "5", "%">>}

McRawD == {<<>>, <<"6", "5", "/", "1", "0", "0">>,
           <<"8", "0", "/", "1", "0", "0">>}

AwardsRawD == {"N/A", "Won 2 Oscars. 160 wins total",
               "Won 3 Primetime Emmys. 12 wins total",
               "Won 1 Golden Globe. 5 wins total", "3 wins & 8 nominations"}

OmdbPayloadsD ==
    {[Response |-> "True", imdbRating |-> i, Ratings |-> RatingsList(r, m),
      Awards |-> a, BoxOffice |-> "N/A", Plot |-> "plot"] :
        i \in ImdbRaw, r \in RtRawD, m \in McRawD, a \in AwardsRawD}

\* The payloads the mood filter is run on: it reads the awards only.
OmdbPayloadsMood ==
    {[Response |-> "True", imdbRating |-> <<"7", ".", "2">>,
      Ratings |-> RatingsList(<<"8", "7", "%">>, m),
      Awards |-> a, BoxOffice |-> "N/A", Plot |-> "plot"] :
        m \in McRawD,
        a \in {"N/A", "Won 2 Oscars. 160 wins total",
               "3 wins & 8 nominations"}}

\* The payloads the filter of find_vibe_movies is run on: it reads the
\* three scores.
OmdbPayloadsVibe ==
    {[Response |-> "True", imdbRating |-> i, Ratings |-> RatingsList(r, m),
      Awards |-> "N/A", BoxOffice |-> "N/A", Plot |-> "plot"] :
        i \in {<<>>, <<"a", "b", "c">>, <<"6", ".", "0">>, <<"9", ".", "0">>},
        r \in {<<>>, <<"7", "5", "%">>},
        m \in {<<>>, <<"8", "0", "/", "1", "0", "0">>}}

\* The payloads of the reference movie of find_vibe_movies.
OmdbPayloadsRef ==
    {[Response |-> "True", imdbRating |-> i,
      Ratings |-> RatingsList(<<"8", "7", "%">>,
                              <<"8", "0", "/", "1", "0", "0">>),
      Awards |-> "N/A", BoxOffice |-> "N/A", Plot |-> "plot"] :
        i \in {<<"a", "b", "c">>, <<"7", ".", "2">>, <<"9", ".", "0">>}}

\* The payload of every title of the long page of find_rating_personality:
\* all scores and an award, so that the rules that pass it pass every title
\* of the page.
OmdbPayloadLong ==
    [Response |-> "True", imdbRating |-> <<"9", ".", "0">>,
     Ratings |-> RatingsList(<<"8", "7", "%">>,
                             <<"8", "0", "/", "1", "0", "0">>),
     Awards |-> "Won 2 Oscars. 160 wins total", BoxOffice |-> "N/A",
     Plot |-> "plot"]

\* What the secondary provider can answer a lookup of method o with
\* ("vibe_ref": the lookup of the reference movie of find_vibe_movies,
\* "long_page": that of a title of the long page).
OmdbWiresFor(o) ==
    IF o \in {"details", "trakt", "mismatches"} THEN OmdbWires
    ELSE IF o = "long_page" THEN {Ok(OmdbPayloadLong)}
    ELSE Failures
         \cup {Ok([Response |-> "False", Error |-> "Movie not found!"])}
         \cup {Ok(p) : p \in CASE o = "mood" -> OmdbPayloadsMood
                                [] o = "vibe" -> OmdbPayloadsVibe
                                [] o = "vibe_ref" -> OmdbPayloadsRef
                                [] OTHER -> OmdbPayloadsD}

Genre(id, name) == [id |-> id, name |-> name]

\* The genres and the runtime of the primary record of a title, for the
\* methods that read them.
GenreLists ==
    {<<>>, <<Genre(35, "Comedy")>>, <<Genre(27, "Horror")>>,
     <<Genre(28, "Action")>>, <<Genre(18, "Drama")>>,
     <<Genre(35, "Comedy"), Genre(27, "Horror")>>,
     <<Genre(27, "Horror"), Genre(28, "Action")>>}

\* The genres of the reference movie of find_vibe_movies: none, one, and
\* more than the two the method searches.
RefGenreLists ==
    {<<>>, <<Genre(18, "Drama")>>,
     <<Genre(14, "Fantasy"), Genre(18, "Drama"), Genre(35, "Comedy")>>}

GenresFor(o) ==
    CASE o = "analyze" -> GenreLists
      [] o = "vibe_ref" -> RefGenreLists
      [] OTHER -> {<<Genre(18, "Drama")>>}

RuntimesFor(o) == IF o = "analyze" THEN {95, 160} ELSE {120}

\* The primary provider's own average, which no discovery filter reads.
VoteAveragesFor(o) ==
    IF o \in {"mood", "personality", "vibe", "vibe_ref"} THEN {86}
    ELSE VoteAverages

\* /movie/{id}, asked by method o
TmdbDetailWires(o, id) ==
    IF o = "long_page"
    THEN {Ok([id |-> id, title |-> id, imdb_id |-> "tt0468569",
              vote_average |-> 86, genres |-> <<Genre(18, "Drama")>>,
              runtime |-> 120])}
    ELSE
    Failures
    \cup {Ok([id |-> id, title |-> id, imdb_id |-> i, vote_average |-> v,
              genres |-> g, runtime |-> r]) :
            i \in {"", "tt0468569"}, v \in VoteAveragesFor(o),
            g \in GenresFor(o), r \in RuntimesFor(o)}

\* /search/movie: the results are numbered in the order the provider
\* returns them.
SearchWires ==
    Failures
    \cup {Ok([status_message |-> "no results key"])}
    \cup {Ok([results |-> [i \in 1..n |-> [id |-> i, title |-> i]]]) :
            n \in 0..MaxResults}

TraktStatsWires == Failures \cup {Ok([watchers |-> 5])}

TraktCommentWires ==
    Failures
    \cup {Ok([items |-> c]) :
            c \in {<<>>, <<[comment |-> {"love", "dark"}]>>,
                   <<[comment |-> {"boring"}], [comment |-> {"bad"}]>>}}

TraktSimilarWires == Failures \cup {Ok([items |-> s]) : s \in {<<>>, <<7, 8>>}}

MinMismatches == {10, 15, 20}

\* The arguments of get_mood_recommendations: the four moods and a name
\* that is none, the three time contexts and none, the default limit and a
\* small one.
Moods == {"cozy", "energetic", "thoughtful", "comfort", "wistful"}

TimeContexts == {"", "morning", "late_night", "weekend"}

Limits == {1, 10}

\* The name of the genre with a provider id.
GenreOf(id) == CHOOSE g \in DOMAIN genre_map : genre_map[g] = id

\* Genres a title can have besides those the request asks for.
ExtraGenres == {<<>>, <<27>>, <<18>>}

\* An entry of the results of /discover/movie.  The provider lists the
\* genres of an entry as genre_ids; named is TRUE for a payload that also
\* carries them as a 'genres' list of names.
DiscoverItem(i, genre_ids, named) ==
    IF named
    THEN [id |-> i, title |-> i, genre_ids |-> genre_ids,
          genres |-> [k \in 1..Len(genre_ids) |->
                         Genre(genre_ids[k], GenreOf(genre_ids[k]))]]
    ELSE [id |-> i, title |-> i, genre_ids |-> genre_ids]

\* /discover/movie with genre parameters: every entry has the genres of
\* with_genres and none of without_genres (no entry when a genre is in
\* both), and besides them genres of extras.
GenreDiscoverWires(params, extras, shapes) ==
    LET asked   == params.with_genres \o params.without_genres
        allowed == {x \in extras :
                       \A k \in 1..Len(x) :
                           \A j \in 1..Len(asked) : x[k] # asked[j]}
        most    == IF \E k \in 1..Len(params.with_genres) :
                          \E j \in 1..Len(params.without_genres) :
                              params.with_genres[k] = params.without_genres[j]
                   THEN 0 ELSE MaxResults
    IN  Failures
        \cup {Ok([status_message |-> "no results key"])}
        \cup UNION {{Ok([results |->
                          [i \in 1..n |->
                              DiscoverItem(i, params.with_genres \o x[i],
                                           named)]]) :
                        x \in [1..n -> allowed], named \in shapes} :
                    n \in 0..most}

\* The pages of /discover/movie for find_vibe_movies.  The titles are
\* numbered in the order the provider sorts them in; a page lists some of
\* the first MaxResults + 1 titles in that order, so that the pages of two
\* genres can share titles and can hold the reference movie (title 1).
Pages ==
    UNION {{q \in [1..n -> 1..(MaxResults + 1)] :
               \A i, j \in 1..n : i < j => q[i] < q[j]} :
           n \in 0..MaxResults}

\* /discover/movie for find_vibe_movies: every entry has the genres of
\* with_genres; no entry when a genre is in with_genres and without_genres.
VibeDiscoverWires(params) ==
    LET clash == \E k \in 1..Len(params.with_genres) :
                     \E j \in 1..Len(params.without_genres) :
                         params.with_genres[k] = params.without_genres[j]
    IN  Failures
        \cup {Ok([status_message |-> "no results key"])}
        \cup {Ok([results |->
                     [k \in 1..Len(q) |->
                         DiscoverItem(q[k], params.with_genres, FALSE)]]) :
                q \in IF clash THEN {<<>>} ELSE Pages}

\* The arguments of find_vibe_movies: the five modifiers and a name that
\* is none.
VibeModifiers == {"accessible", "grounded", "cerebral", "crowd_pleasing",
                  "challenging", "quirky"}

\* personality_type: the five personalities and a name that is none.
PersonalityTypes == {"critics_darling", "crowd_pleaser", "universal_acclaim",
                     "cult_classic", "prestige_accessible", "arthouse"}

\* A page of /discover/movie with one title more than the filter of
\* find_rating_personality collects, numbered after the titles of the
\* short pages.
LongPage ==
    [i \in 1..(PersonalityLimit + 1) |->
        [id |-> MaxResults + i, title |-> MaxResults + i]]

\* /discover/movie for find_rating_personality: the results are numbered in
\* the order the provider returns them.
DiscoverWires ==
    Failures
    \cup {Ok([status_message |-> "no results key"])}
    \cup {Ok([results |-> LongPage])}
    \cup {Ok([results |-> [i \in 1..n |-> [id |-> i, title |-> i]]]) :
            n \in 0..MaxResults}

\* /weather: the request can also run into its timeout.
WeatherWires ==
    Failures
    \cup {[kind |-> "timeout"]}
    \cup {Ok([cod |-> 200]),
          Ok([name |-> "Paris", weather |-> <<>>]),
          Ok([name |-> "Paris", weather |-> <<"Clear Sky">>])}

-----------------------------------------------------------------------------
(* History *)

\* The entry of the call log for one HTTP request to a provider's endpoint:
\* what came back on the wire and what the client returned for it.
Call(provider, endpoint, wire, ret) ==
    [provider |-> provider, endpoint |-> endpoint, wire |-> wire.kind,
     nodata |-> (provider = "omdb" /\ wire.kind = "ok"
                 /\ wire.json.Response = "False"),
     none |-> (ret = None), ret |-> ret]

\* A client that sends the request a second time after a failure.
Requests_retry(provider, endpoint, wire, ret) ==
    IF wire.kind = "ok" THEN <<Call(provider, endpoint, wire, ret)>>
    ELSE <<Call(provider, endpoint, wire, ret),
           Call(provider, endpoint, wire, ret)>>

\* The HTTP requests one client invocation sends: the single requests.get
\* of its try block, whose failure is answered by return None.
Requests(provider, endpoint, wire, ret) ==
    <<Call(provider, endpoint, wire, ret)>>

\* The value the payload's Ratings carry for a source, <<>> when they have
\* none.
RECURSIVE RawValue(_, _, _)
RawValue(rs, source, i) ==
    IF i > Len(rs) THEN <<>>
    ELSE IF py_lower(rs[i].Source) = source THEN rs[i].Value
    ELSE RawValue(rs, source, i + 1)

\* The three scores a secondary answer really carries: ok is FALSE when the
\* score is missing, 'N/A' or no number, v is its value otherwise.
TrueImdb(omdb) ==
    IF omdb = None THEN [ok |-> FALSE, v |-> 0]
    ELSE py_float(py_get(omdb, "imdbRating", <<>>))

TrueRt(omdb) ==
    IF omdb = None THEN [ok |-> FALSE, v |-> 0]
    ELSE py_int(py_replace(RawValue(py_get(omdb, "Ratings", <<>>),
                                    "rotten tomatoes", 1), "%"))

TrueMc(omdb) ==
    IF omdb = None THEN [ok |-> FALSE, v |-> 0]
    ELSE py_int(py_split0(RawValue(py_get(omdb, "Ratings", <<>>),
                                   "metacritic", 1), "/"))

\* What the secondary payload of an examined title really carried:
\* whether each score is there, and its value.
Seen(movie, omdb) ==
    LET f == TrueImdb(omdb)
        r == TrueRt(omdb)
    IN  [title |-> movie.title, has_imdb |-> f.ok, imdb |-> f.v,
         has_rt |-> r.ok, rt |-> r.v]

-----------------------------------------------------------------------------
(* The API methods, one step per provider answer *)

Init ==
    /\ op = "none"
    /\ pc = "idle"
    /\ min_mismatch = 0
    /\ todo = <<>>
    /\ mismatches = <<>>
    /\ examined = <<>>
    /\ tmdb_data = None
    /\ omdb_data = None
    /\ enhanced = None
    /\ trakt = None
    /\ calls = <<>>
    /\ result = [kind |-> "pending"]
    /\ response = [kind |-> "pending"]
    /\ args = None
    /\ rules = None
    /\ filtered = <<>>
    /\ decided = None
    /\ vibe = None
    /\ tables = NoTables
    /\ submitted = FALSE

\* get_enhanced_movie_details(movie_id) is called: the primary call goes out.
StartDetails ==
    /\ pc = "idle"
    /\ op' = "details"
    /\ pc' = "primary"
    /\ UNCHANGED <<min_mismatch, todo, mismatches, examined, tmdb_data,
                   omdb_data, enhanced, trakt, calls, result, response>>
    /\ UNCHANGED discovery
    /\ submitted' = FALSE
    /\ tables' = NoTables

\* get_enhanced_movie_with_trakt(movie_id) is called.
StartTrakt ==
    /\ pc = "idle"
    /\ op' = "trakt"
    /\ pc' = "primary"
    /\ UNCHANGED <<min_mismatch, todo, mismatches, examined, tmdb_data,
                   omdb_data, enhanced, trakt, calls, result, response>>
    /\ UNCHANGED discovery
    /\ submitted' = FALSE
    /\ tables' = NoTables

\* analyze_movie_vibe(movie_id) is called.
StartAnalyze ==
    /\ pc = "idle"
    /\ op' = "analyze"
    /\ pc' = "primary"
    /\ UNCHANGED <<min_mismatch, todo, mismatches, examined, tmdb_data,
                   omdb_data, enhanced, trakt, calls, result, response>>
    /\ UNCHANGED discovery
    /\ submitted' = FALSE
    /\ tables' = NoTables

\* find_rating_personality(personality_type) is called: the rules are
\* chosen and the discover request goes out.
StartPersonality ==
    /\ pc = "idle"
    /\ \E p \in PersonalityTypes :
         /\ args' = [personality_type |-> p]
         /\ rules' = personality_rules(p)
    /\ op' = "personality"
    /\ pc' = "discover"
    /\ UNCHANGED <<min_mismatch, todo, mismatches, examined, tmdb_data,
                   omdb_data, enhanced, trakt, calls, result, response,
                   filtered, decided, vibe>>
    /\ submitted' = FALSE
    /\ tables' = NoTables

\* The discover request of _search_by_personality_rules answers: no results
\* means [], otherwise the filter starts on the first of at most fifty.
PersonalityDiscoverReply ==
    /\ pc = "discover"
    /\ op = "personality"
    /\ \E wire \in DiscoverWires :
         LET found == _make_tmdb_request(wire)
         IN  IF found = None \/ "results" \notin DOMAIN found
                \/ found.results = <<>>
             THEN /\ result' = [kind |-> "list", value |-> <<>>]
                  /\ pc' = "done"
                  /\ todo' = <<>>
             ELSE /\ todo' = SubSeq(found.results, 1,
                                    Min(Len(found.results), 50))
                  /\ result' = result
                  /\ pc' = "primary"
    /\ UNCHANGED <<op, min_mismatch, mismatches, examined, tmdb_data,
                   omdb_data, enhanced, trakt, calls, response>>
    /\ UNCHANGED discovery
    /\ UNCHANGED submitted
    /\ UNCHANGED tables

\* get_mood_recommendations(mood, time_context, limit) is called: the
\* profile is built and the discover request goes out.
StartMood ==
    /\ pc = "idle"
    /\ \E mood \in Moods, time_context \in TimeContexts, limit \in Limits :
         LET found == profile_update(NewTable(tables.current), mood,
                                     time_context)
         IN  /\ args' = [mood |-> mood, time_context |-> time_context,
                         limit |-> limit]
             /\ rules' = found.profile
             /\ tables' = [earlier |-> tables.current,
                           current |-> found.table]
    /\ op' = "mood"
    /\ pc' = "discover"
    /\ UNCHANGED <<min_mismatch, todo, mismatches, examined, tmdb_data,
                   omdb_data, enhanced, trakt, calls, result, response,
                   filtered, decided, vibe>>
    /\ submitted' = FALSE

\* The discover request of _search_by_mood_profile answers: no results
\* means [], otherwise the filter starts on the first 2 * limit of them.
MoodDiscoverReply ==
    /\ pc = "discover"
    /\ op = "mood"
    /\ \E wire \in GenreDiscoverWires(MoodParams(rules), ExtraGenres,
                                       BOOLEAN) :
         LET found == _make_tmdb_request(wire)
         IN  IF found = None \/ "results" \notin DOMAIN found
                \/ found.results = <<>>
             THEN /\ result' = [kind |-> "list", value |-> <<>>]
                  /\ pc' = "done"
                  /\ todo' = <<>>
             ELSE /\ todo' = SubSeq(found.results, 1,
                                    Min(Len(found.results), args.limit * 2))
                  /\ result' = result
                  /\ pc' = "mood_filter"
    /\ UNCHANGED <<op, min_mismatch, mismatches, examined, tmdb_data,
                   omdb_data, enhanced, trakt, calls, response>>
    /\ UNCHANGED discovery
    /\ UNCHANGED submitted
    /\ tables' = [tables EXCEPT !.earlier = None]

\* The loop of _filter_by_mood_criteria with the movie put in front of the
\* list.
MoodDecides_prepend(keep, looked_up) ==
    LET list == IF keep THEN <<Head(todo)>> \o filtered ELSE filtered
    IN  /\ filtered' = list
        /\ decided' = [movie |-> Head(todo), accepted |-> keep,
                       looked_up |-> looked_up]
        /\ todo' = Tail(todo)
        /\ IF Tail(todo) = <<>> \/ (keep /\ Len(list) >= args.limit)
           THEN /\ result' = [kind |-> "list", value |-> list]
                /\ pc' = "done"
           ELSE /\ result' = result
                /\ pc' = "mood_filter"

\* The loop of _filter_by_mood_criteria is through with the first movie of
\* todo: it is appended when keep is TRUE, the loop ends at limit movies
\* or with the last movie, and the list is returned.
MoodDecides(keep, looked_up) ==
    LET list == IF keep THEN Append(filtered, Head(todo)) ELSE filtered
    IN  /\ filtered' = list
        /\ decided' = [movie |-> Head(todo), accepted |-> keep,
                       looked_up |-> looked_up]
        /\ todo' = Tail(todo)
        /\ IF Tail(todo) = <<>> \/ (keep /\ Len(list) >= args.limit)
           THEN /\ result' = [kind |-> "list", value |-> list]
                /\ pc' = "done"
           ELSE /\ result' = result
                /\ pc' = "mood_filter"

\* The loop of _filter_by_mood_criteria takes the next movie: light_content
\* may skip it, awards_preferred sends the lookup of its details, otherwise
\* familiar_genres decides.
MoodCandidate ==
    /\ pc = "mood_filter"
    /\ LET movie == Head(todo)
       IN  IF TooDark(movie, rules)
           THEN /\ MoodDecides(FALSE, FALSE)
                /\ UNCHANGED <<tmdb_data, omdb_data, enhanced, calls>>
           ELSE IF py_get(rules, "awards_preferred", FALSE)
           THEN /\ pc' = "primary"
                /\ UNCHANGED <<todo, tmdb_data, omdb_data, enhanced, calls,
                               result, filtered, decided>>
           ELSE /\ MoodDecides(~Unfamiliar(movie, rules), FALSE)
                /\ UNCHANGED <<tmdb_data, omdb_data, enhanced, calls>>
    /\ UNCHANGED <<op, min_mismatch, mismatches, examined, trakt, response,
                   args, rules, vibe>>
    /\ UNCHANGED submitted
    /\ UNCHANGED tables

\* find_vibe_movies(reference_movie, vibe_modifier, limit) is called: the
\* search for the reference movie goes out.
StartVibe ==
    /\ pc = "idle"
    /\ \E m \in VibeModifiers, limit \in Limits :
         args' = [vibe_modifier |-> m, limit |-> limit]
    /\ op' = "vibe"
    /\ pc' = "search"
    /\ UNCHANGED <<min_mismatch, todo, mismatches, examined, tmdb_data,
                   omdb_data, enhanced, trakt, calls, result, response,
                   rules, filtered, decided, vibe>>
    /\ submitted' = FALSE
    /\ tables' = NoTables

\* The search answers find_vibe_movies: no answer or no results means [],
\* an answer without a 'results' key raises KeyError, otherwise the first
\* result is the reference movie and its details are looked up.
VibeSearchReply ==
    /\ pc = "search"
    /\ op = "vibe"
    /\ \E wire \in SearchWires :
         LET search_results == _make_tmdb_request(wire)
         IN  IF search_results = None
             THEN /\ result' = [kind |-> "list", value |-> <<>>]
                  /\ pc' = "done"
                  /\ vibe' = vibe
             ELSE IF "results" \notin DOMAIN search_results
             THEN /\ result' = [kind |-> "raise", exc |-> "KeyError"]
                  /\ pc' = "done"
                  /\ vibe' = vibe
             ELSE IF search_results.results = <<>>
             THEN /\ result' = [kind |-> "list", value |-> <<>>]
                  /\ pc' = "done"
                  /\ vibe' = vibe
             ELSE /\ vibe' = [ref_id |-> search_results.results[1].id,
                              genres |-> <<>>, recommendations |-> <<>>]
                  /\ result' = result
                  /\ pc' = "primary"
    /\ UNCHANGED <<op, min_mismatch, todo, mismatches, examined, tmdb_data,
                   omdb_data, enhanced, trakt, calls, response, args, rules,
                   filtered, decided>>
    /\ UNCHANGED submitted
    /\ UNCHANGED tables

\* The search of one genre of the reference movie is over with the list
\* genre_movies: the next genre is searched, or the recommendations are
\* returned without duplicates and without the reference movie, cut at
\* limit.
GenreDone(genre_movies) ==
    LET recommendations == vibe.recommendations \o genre_movies
        unique_recommendations == Unique(recommendations, {vibe.ref_id})
    IN  IF Tail(vibe.genres) = <<>>
        THEN [vibe |-> [vibe EXCEPT !.genres = <<>>,
                                    !.recommendations = recommendations],
              pc |-> "done",
              result |-> [kind |-> "list",
                          value |-> SubSeq(unique_recommendations, 1,
                                       Min(args.limit,
                                           Len(unique_recommendations)))]]
        ELSE [vibe |-> [vibe EXCEPT !.genres = Tail(vibe.genres),
                                    !.recommendations = recommendations],
              pc |-> "discover",
              result |-> result]

\* The discover request of _search_by_genre_and_criteria answers for the
\* genre being searched: no results means no movies of this genre,
\* otherwise the filter starts on the first 2 * limit of them.
VibeDiscoverReply ==
    /\ pc = "discover"
    /\ op = "vibe"
    /\ \E wire \in VibeDiscoverWires(VibeParams(Head(vibe.genres), rules)) :
         LET found  == _make_tmdb_request(wire)
             movies == IF found = None \/ "results" \notin DOMAIN found
                       THEN <<>>
                       ELSE SubSeq(found.results, 1,
                                   Min(Len(found.results), args.limit * 2))
         IN  IF movies = <<>>
             THEN /\ vibe' = GenreDone(<<>>).vibe
                  /\ pc' = GenreDone(<<>>).pc
                  /\ result' = GenreDone(<<>>).result
                  /\ todo' = <<>>
             ELSE /\ todo' = movies
                  /\ pc' = "primary"
                  /\ UNCHANGED <<vibe, result>>
    /\ filtered' = <<>>
    /\ UNCHANGED <<op, min_mismatch, mismatches, examined, tmdb_data,
                   omdb_data, enhanced, trakt, calls, response, args, rules,
                   decided>>
    /\ UNCHANGED submitted
    /\ UNCHANGED tables

\* What find_vibe_movies does with the outcome e of a lookup of details:
\* that of the reference movie while there are no rules yet, that of a
\* candidate of _filter_by_advanced_criteria afterwards.
VibeStep(e) ==
    LET same == [vibe |-> vibe, rules |-> rules, result |-> result,
                 pc |-> pc, todo |-> todo, filtered |-> filtered,
                 decided |-> decided]
        none == [same EXCEPT !.result = [kind |-> "list", value |-> <<>>],
                             !.pc = "done"]
    IN  IF e.kind = "raise"
        THEN [same EXCEPT !.result = e, !.pc = "done"]
        ELSE IF rules = None
        THEN IF e = None THEN none
             ELSE LET vibe_rules ==
                          _get_vibe_modifier_rules(args.vibe_modifier,
                              e.value.enhanced_ratings)
                      ref_genres == TopGenres(e.value)
                  IN  IF ref_genres = <<>>
                      THEN [none EXCEPT !.rules = vibe_rules]
                      ELSE [same EXCEPT
                               !.rules = vibe_rules,
                               !.vibe = [vibe EXCEPT !.genres = ref_genres],
                               !.pc = "discover"]
        ELSE LET movie == Head(todo)
                 keep  == e # None /\ AdvancedKeeps(e.value, rules)
                 list  == IF keep THEN Append(filtered, movie) ELSE filtered
                 next  == [same EXCEPT
                              !.todo = Tail(todo), !.filtered = list,
                              !.decided = [movie |-> movie, accepted |-> keep,
                                           looked_up |-> TRUE],
                              !.pc = "primary"]
             IN  IF Tail(todo) = <<>>
                    \/ (keep /\ Len(list) >= AdvancedLimit)
                 THEN [next EXCEPT !.vibe = GenreDone(list).vibe,
                                   !.pc = GenreDone(list).pc,
                                   !.result = GenreDone(list).result,
                                   !.todo = <<>>]
                 ELSE next

\* find_rating_mismatches(query, min_mismatch) is called: the search goes
\* out.
StartMismatches ==
    /\ pc = "idle"
    /\ \E m \in MinMismatches : min_mismatch' = m
    /\ op' = "mismatches"
    /\ pc' = "search"
    /\ UNCHANGED <<todo, mismatches, examined, tmdb_data, omdb_data,
                   enhanced, trakt, calls, result, response>>
    /\ UNCHANGED discovery
    /\ submitted' = FALSE
    /\ tables' = NoTables

\* The search answers: no results means [], otherwise the loop starts on
\* the first of at most ten results.
SearchReply ==
    /\ pc = "search"
    /\ op = "mismatches"
    /\ \E wire \in SearchWires :
         LET search_results == _make_tmdb_request(wire)
         IN  IF search_results = None
                \/ "results" \notin DOMAIN search_results
             THEN /\ result' = [kind |-> "list", value |-> <<>>]
                  /\ pc' = "done"
                  /\ todo' = <<>>
             ELSE LET first == SubSeq(search_results.results, 1,
                                  Min(Len(search_results.results),
                                      SearchLimit))
                  IN  /\ todo' = first
                      /\ IF first = <<>>
                         THEN /\ result' = [kind |-> "list",
                                            value |-> sorted_desc(<<>>)]
                              /\ pc' = "done"
                         ELSE /\ result' = result
                              /\ pc' = "primary"
    /\ UNCHANGED <<op, min_mismatch, mismatches, examined, tmdb_data,
                   omdb_data, enhanced, trakt, calls, response>>
    /\ UNCHANGED discovery
    /\ UNCHANGED submitted
    /\ UNCHANGED tables

\* The community calls issued whatever the enrichment returned.
HasRecord_any(e) == TRUE

\* if not enhanced_data: return None
HasRecord(e) == e.kind = "dict"

\* What the caller of get_enhanced_movie_details does with its outcome e
\* (None, a raised exception or the record), the call log being log.
Return(e, tm, om, log) ==
    /\ tmdb_data' = tm
    /\ omdb_data' = om
    /\ calls' = log
    /\ rules' = IF op = "vibe" THEN VibeStep(e).rules ELSE rules
    /\ vibe' = IF op = "vibe" THEN VibeStep(e).vibe ELSE vibe
    /\ CASE op = "details" ->
              /\ result' = e
              /\ pc' = "done"
              /\ enhanced' = e
              /\ UNCHANGED <<todo, mismatches, examined, trakt, filtered,
                             decided>>
         [] op = "trakt" ->
              /\ enhanced' = e
              /\ IF HasRecord(e)
                 THEN /\ pc' = "stats"
                      /\ result' = result
                 ELSE /\ pc' = "done"
                      /\ result' = e
              /\ UNCHANGED <<todo, mismatches, examined, trakt, filtered,
                             decided>>
         [] op = "analyze" ->
              /\ result' = IF e.kind = "raise" THEN e
                           ELSE IF e = None
                           THEN [kind |-> "dict", value |-> <<>>]
                           ELSE [kind |-> "dict",
                                 value |-> analyze_movie_vibe(e.value)]
              /\ pc' = "done"
              /\ enhanced' = e
              /\ UNCHANGED <<todo, mismatches, examined, trakt, filtered,
                             decided>>
         [] op = "personality" ->
              IF e.kind = "raise"
              THEN /\ result' = e
                   /\ pc' = "done"
                   /\ enhanced' = e
                   /\ UNCHANGED <<todo, mismatches, examined, trakt,
                                  filtered, decided>>
              ELSE LET movie == Head(todo)
                       keep  == e # None /\ PersonalityKeeps(e.value, rules)
                       list  == IF keep THEN Append(filtered, movie)
                                ELSE filtered
                   IN  /\ filtered' = list
                       /\ decided' = [movie |-> movie, accepted |-> keep,
                                      looked_up |-> TRUE]
                       /\ todo' = Tail(todo)
                       /\ enhanced' = e
                       /\ IF Tail(todo) = <<>>
                             \/ Len(list) >= PersonalityLimit
                          THEN /\ result' = [kind |-> "list", value |-> list]
                               /\ pc' = "done"
                          ELSE /\ result' = result
                               /\ pc' = "primary"
                       /\ UNCHANGED <<mismatches, examined, trakt>>
         [] op = "mood" ->
              IF e.kind = "raise"
              THEN /\ result' = e
                   /\ pc' = "done"
                   /\ enhanced' = e
                   /\ UNCHANGED <<todo, mismatches, examined, trakt,
                                  filtered, decided>>
              ELSE /\ MoodDecides(~NoAwards(e)
                                  /\ ~Unfamiliar(Head(todo), rules), TRUE)
                   /\ enhanced' = e
                   /\ UNCHANGED <<mismatches, examined, trakt>>
         [] op = "vibe" ->
              /\ result' = VibeStep(e).result
              /\ pc' = VibeStep(e).pc
              /\ todo' = VibeStep(e).todo
              /\ filtered' = VibeStep(e).filtered
              /\ decided' = VibeStep(e).decided
              /\ enhanced' = e
              /\ UNCHANGED <<mismatches, examined, trakt>>
         [] op = "mismatches" ->
              IF e.kind = "raise"
              THEN /\ result' = e
                   /\ pc' = "done"
                   /\ enhanced' = e
                   /\ UNCHANGED <<todo, mismatches, examined, trakt, filtered,
                             decided>>
              ELSE LET movie == Head(todo)
                       list  == IF e = None THEN mismatches
                                ELSE AppendMismatch(mismatches, movie,
                                                    e.value, min_mismatch)
                   IN  /\ mismatches' = list
                       /\ examined' = IF e = None THEN examined
                                      ELSE Append(examined, Seen(movie, om))
                       /\ todo' = Tail(todo)
                       /\ enhanced' = e
                       /\ IF Tail(todo) = <<>>
                          THEN /\ result' = [kind |-> "list",
                                             value |-> sorted_desc(list)]
                               /\ pc' = "done"
                          ELSE /\ result' = result
                               /\ pc' = "primary"
                       /\ UNCHANGED <<trakt, filtered, decided>>

\* The title whose details the current method asks for.
CurrentId ==
    IF op \in {"details", "trakt", "analyze"} THEN 1
    ELSE IF op = "vibe" /\ rules = None THEN vibe.ref_id
    ELSE Head(todo).id

\* The lookup the current method is in, for what the providers can answer.
Lookup ==
    IF op = "vibe" /\ rules = None THEN "vibe_ref"
    ELSE IF op = "personality" /\ Head(todo).id > MaxResults
    THEN "long_page"
    ELSE op

\* The primary provider answers get_movie_details: no record ends the
\* enrichment with None; a record with an IMDb id sends the secondary
\* lookup; a record without one is enriched from the primary data alone.
PrimaryReply ==
    /\ pc = "primary"
    /\ \E wire \in TmdbDetailWires(Lookup, CurrentId) :
         LET data == _make_tmdb_request(wire)
             log  == Requests("tmdb", "/movie/{id}", wire, data)
         IN  IF data = None
             THEN Return(None, None, None, log)
             ELSE IF HasImdbId(data)
             THEN /\ pc' = "secondary"
                  /\ tmdb_data' = data
                  /\ omdb_data' = None
                  /\ enhanced' = None
                  /\ calls' = log
                  /\ UNCHANGED <<todo, mismatches, examined, trakt, result,
                                 rules, filtered, decided, vibe>>
             ELSE Return(BuildEnhanced(data, None), data, None, log)
    /\ UNCHANGED <<op, min_mismatch, response, args>>
    /\ UNCHANGED submitted
    /\ UNCHANGED tables

\* The secondary provider answers the lookup by IMDb id.
SecondaryReply ==
    /\ pc = "secondary"
    /\ \E wire \in OmdbWiresFor(Lookup) :
         LET data == _make_omdb_request(wire)
         IN  Return(BuildEnhanced(tmdb_data, data), tmdb_data, data,
                    calls \o Requests("omdb", "?i=", wire, data))
    /\ UNCHANGED <<op, min_mismatch, response, args>>
    /\ UNCHANGED submitted
    /\ UNCHANGED tables

\* get_trakt_movie_stats answers.
StatsReply ==
    /\ pc = "stats"
    /\ \E wire \in TraktStatsWires :
         LET stats == get_trakt_movie_stats(wire)
         IN  /\ trakt' = [stats |-> stats]
             /\ calls' = calls \o Requests("trakt", "/movies/{id}/stats",
                                          wire, stats)
    /\ pc' = "comments"
    /\ UNCHANGED <<op, min_mismatch, todo, mismatches, examined, tmdb_data,
                   omdb_data, enhanced, result, response>>
    /\ UNCHANGED discovery
    /\ UNCHANGED submitted
    /\ UNCHANGED tables

\* get_trakt_movie_comments answers.
CommentsReply ==
    /\ pc = "comments"
    /\ \E wire \in TraktCommentWires :
         /\ trakt' = trakt @@ [user_comments |-> get_trakt_list(wire)]
         /\ calls' = calls \o Requests("trakt", "/movies/{id}/comments",
                                      wire, _make_trakt_request(wire))
    /\ pc' = "similar"
    /\ UNCHANGED <<op, min_mismatch, todo, mismatches, examined, tmdb_data,
                   omdb_data, enhanced, result, response>>
    /\ UNCHANGED discovery
    /\ UNCHANGED submitted
    /\ UNCHANGED tables

\* get_trakt_similar_movies answers and the record is returned with its
\* trakt_data.
SimilarReply ==
    /\ pc = "similar"
    /\ \E wire \in TraktSimilarWires :
         LET trakt_data ==
                 trakt @@ [similar_movies |-> get_trakt_list(wire),
                           community_sentiment |->
                               _analyze_trakt_comments(trakt.user_comments)]
         IN  /\ trakt' = trakt_data
             /\ result' = [kind |-> "dict",
                           value |-> enhanced.value
                                       @@ [trakt_data |-> trakt_data]]
             /\ calls' = calls \o Requests("trakt", "/movies/{id}/related",
                                          wire, _make_trakt_request(wire))
    /\ pc' = "done"
    /\ UNCHANGED <<op, min_mismatch, todo, mismatches, examined, tmdb_data,
                   omdb_data, enhanced, response>>
    /\ UNCHANGED discovery
    /\ UNCHANGED submitted
    /\ UNCHANGED tables

\* get_current_weather(location) is called on the weather server.
StartWeather ==
    /\ pc = "idle"
    /\ op' = "weather"
    /\ pc' = "weather"
    /\ UNCHANGED <<min_mismatch, todo, mismatches, examined, tmdb_data,
                   omdb_data, enhanced, trakt, calls, result, response>>
    /\ UNCHANGED discovery
    /\ submitted' = FALSE
    /\ tables' = NoTables

\* The weather provider answers, or the timeout of the request expires.
WeatherReply ==
    /\ pc = "weather"
    /\ \E wire \in WeatherWires : result' = get_current_weather(wire)
    /\ pc' = "done"
    /\ UNCHANGED <<op, min_mismatch, todo, mismatches, examined, tmdb_data,
                   omdb_data, enhanced, trakt, calls, response>>
    /\ UNCHANGED discovery
    /\ UNCHANGED submitted
    /\ UNCHANGED tables

\* A tool name the server does not know is called: the else branch.
UnknownTool ==
    /\ pc = "idle"
    /\ op' = "unknown"
    /\ pc' = "responded"
    /\ response' = handle_call_tool("unknown", result)
    /\ UNCHANGED <<min_mismatch, todo, mismatches, examined, tmdb_data,
                   omdb_data, enhanced, trakt, calls, result>>
    /\ UNCHANGED discovery
    /\ submitted' = FALSE
    /\ tables' = NoTables

\* The API method has returned or raised: handle_call_tool hands its
\* response to the client.
Respond ==
    /\ pc = "done"
    /\ response' = handle_call_tool(op, result)
    /\ pc' = "responded"
    /\ UNCHANGED <<op, min_mismatch, todo, mismatches, examined, tmdb_data,
                   omdb_data, enhanced, trakt, calls, result>>
    /\ UNCHANGED discovery
    /\ UNCHANGED submitted
    /\ UNCHANGED tables

\* The invocation is over; nothing of the request survives it.
Finish ==
    /\ pc = "responded"
    /\ op' = "none"
    /\ pc' = "idle"
    /\ min_mismatch' = 0
    /\ todo' = <<>>
    /\ mismatches' = <<>>
    /\ examined' = <<>>
    /\ tmdb_data' = None
    /\ omdb_data' = None
    /\ enhanced' = None
    /\ trakt' = None
    /\ calls' = <<>>
    /\ result' = [kind |-> "pending"]
    /\ response' = [kind |-> "pending"]
    /\ args' = None
    /\ rules' = None
    /\ filtered' = <<>>
    /\ decided' = None
    /\ vibe' = None
    /\ UNCHANGED submitted
    /\ UNCHANGED tables

Next ==
    \/ StartDetails
    \/ StartTrakt
    \/ StartMismatches
    \/ StartAnalyze
    \/ StartMood
    \/ MoodDiscoverReply
    \/ MoodCandidate
    \/ StartVibe
    \/ VibeSearchReply
    \/ VibeDiscoverReply
    \/ StartPersonality
    \/ PersonalityDiscoverReply
    \/ SearchReply
    \/ PrimaryReply
    \/ SecondaryReply
    \/ StatsReply
    \/ CommentsReply
    \/ SimilarReply
    \/ StartWeather
    \/ WeatherReply
    \/ UnknownTool
    \/ Respond
    \/ Finish

Spec == Init /\ [][Next]_vars

\* The calls of the movie server that wait for a provider.
Awaiting == {"search", "discover", "primary", "secondary", "stats",
             "comments", "similar"}

\* The provider never answers a request of the movie server: requests.get
\* is called without a timeout and waits for ever.
NoAnswer ==
    /\ pc \in Awaiting
    /\ pc' = "blocked"
    /\ UNCHANGED <<op, min_mismatch, todo, mismatches, examined, tmdb_data,
                   omdb_data, enhanced, trakt, calls, result, response>>
    /\ UNCHANGED discovery
    /\ UNCHANGED submitted
    /\ UNCHANGED tables

\* While the server handles an invocation, a client sends another
\* tools/call request.
Submit ==
    /\ pc # "idle"
    /\ ~submitted
    /\ submitted' = TRUE
    /\ UNCHANGED <<op, pc, min_mismatch, todo, mismatches, examined,
                   tmdb_data, omdb_data, enhanced, trakt, calls, result,
                   response>>
    /\ UNCHANGED discovery
    /\ UNCHANGED tables

\* The coroutine handle_call_tool begins to handle a request.  It runs on
\* the event loop of asyncio.run(main()) and calls the API method, whose
\* requests.get does not yield to the loop: the loop begins the next
\* request when the coroutine has returned.
Begin ==
    \/ StartDetails
    \/ StartTrakt
    \/ StartMismatches
    \/ StartAnalyze
    \/ StartMood
    \/ StartVibe
    \/ StartPersonality
    \/ StartWeather
    \/ UnknownTool

ServerNext == Next \/ Submit

\* The server with clients that send requests while it is busy.
ServerSpec == Init /\ [][ServerNext]_vars

LiveNext == Next \/ NoAnswer

\* The server keeps running whatever it can run; providers may answer or
\* stay silent.
LiveSpec == Init /\ [][LiveNext]_vars /\ WF_vars(LiveNext)

-----------------------------------------------------------------------------
(* Properties *)

Scores == 0..100

\* An enrichment has run to its end on a secondary payload.
Enriched == omdb_data # None /\ enhanced # None

\* find_rating_mismatches has returned its list.
Listed == op = "mismatches" /\ pc = "done" /\ result.kind = "list"

Entries == {result.value[i] : i \in 1..Len(result.value)}

Examined == {examined[i] : i \in 1..Len(examined)}

\* get_enhanced_movie_details has returned after a successful primary
\* answer.
DetailsDone == op = "details" /\ pc = "done" /\ tmdb_data # None

OmdbCalls == {i \in 1..Len(calls) : calls[i].provider = "omdb"}

\* C1: whenever the secondary payload's imdbRating, Rotten Tomatoes value or
\* Metacritic value is missing, 'N/A' or unparseable, the enrichment ends
\* without an exception and the normalised field holds an absent value, one
\* that is no score (not even the score 0).
C1_AbsentNeverZeroNeverRaises ==
    Enriched =>
        /\ enhanced.kind = "dict"
        /\ ~TrueImdb(omdb_data).ok
              => enhanced.value.enhanced_ratings.imdb \notin Scores
        /\ ~TrueRt(omdb_data).ok
              => enhanced.value.enhanced_ratings.rotten_tomatoes \notin Scores
        /\ ~TrueMc(omdb_data).ok
              => enhanced.value.enhanced_ratings.metacritic \notin Scores

\* C2: every entry of the list find_rating_mismatches returns is a title
\* whose payload carried both an IMDb score and a Rotten Tomatoes percentage.
C2_NoMismatchFromAbsentScore ==
    Listed =>
        \A e \in Entries :
            \E s \in Examined :
                s.title = e.title /\ s.has_imdb /\ s.has_rt

\* A list was returned although a title with a missing score was examined.
C2_Witness ==
    /\ Listed
    /\ result.value # <<>>
    /\ \E s \in Examined : ~s.has_imdb \/ ~s.has_rt

\* C3: every returned entry has |audience - critic_percentage/10| >=
\* min_gap, and every examined title with both scores present and that gap
\* >= min_gap is returned.
C3_ExactlyTheGapsAtLeastMin ==
    Listed =>
        /\ \A e \in Entries :
               Abs(e.imdb_rating - e.rotten_tomatoes) >= min_mismatch
        /\ \A s \in Examined :
               (s.has_imdb /\ s.has_rt /\ Abs(s.imdb - s.rt) >= min_mismatch)
                   => \E e \in Entries : e.title = s.title

\* C4: the returned list is in non-increasing order of mismatch_degree and
\* entries of equal mismatch_degree are in the order of the search results.
C4_SortedDescendingStable ==
    Listed =>
        \A i, j \in 1..Len(result.value) :
            i < j =>
                /\ result.value[i].mismatch_degree
                       >= result.value[j].mismatch_degree
                /\ result.value[i].mismatch_degree
                       = result.value[j].mismatch_degree
                       => result.value[i].title < result.value[j].title

\* Two titles with the same mismatch_degree were returned.
C4_Witness ==
    /\ Listed
    /\ Len(result.value) = 2
    /\ result.value[1].mismatch_degree = result.value[2].mismatch_degree

AudienceFavours == "Audiences love it more than critics"
CriticsFavour == "Critics love it more than audiences"

LabelParts(label) ==
    CASE label = AudienceFavours -> {"audience favours"}
      [] label = CriticsFavour -> {"critics favour"}
      [] label = "Highly acclaimed (IMDb 8.5+)" -> {"highly acclaimed"}
      [] label = "Standard rating distribution" -> {"standard"}
      [] OTHER -> {}

\* The score the code works with: 0 when the payload has none.
ScoreOrZero(t) == IF t.ok THEN t.v ELSE 0

C7_SecondaryFailureLeavesFieldsAbsent ==
    (DetailsDone /\ omdb_data = None)
    => /\ result.kind = "dict"
       /\ result.value.enhanced_ratings.imdb \notin Scores
       /\ result.value.enhanced_ratings.rotten_tomatoes \notin Scores
       /\ result.value.enhanced_ratings.metacritic \notin Scores
       /\ "awards" \notin DOMAIN result.value
       /\ "box_office" \notin DOMAIN result.value
       /\ "detailed_plot" \notin DOMAIN result.value

\* C8: the first call of an enrichment is the primary one; a secondary or
\* community call is answered or pending only after a primary answer with a
\* record; when the primary answer has none, the method returns None with
\* no other call made.
C8_PrimaryFirstAndFatal ==
    /\ calls # <<>> => calls[1].provider = "tmdb"
    /\ \A i \in 2..Len(calls) :
           calls[i].provider # "tmdb" /\ ~calls[1].none
    /\ pc \in {"secondary", "stats", "comments", "similar"}
           => calls # <<>> /\ ~calls[1].none
    /\ (op \in {"details", "trakt"} /\ pc = "done" /\ calls[1].none)
           => result = None /\ Len(calls) = 1

\* The enrichment with community data ended on a failed primary call.
C8_Witness ==
    /\ op = "trakt"
    /\ pc = "done"
    /\ calls[1].none
    /\ result = None

C11_NoRetry ==
    \A i, j \in 1..Len(calls) :
        (calls[i].provider = calls[j].provider
         /\ calls[i].endpoint = calls[j].endpoint) => i = j

\* A lookup went on to the community calls after its secondary request had
\* failed, and a community request failed as well.
C11_Witness ==
    /\ op = "trakt" /\ pc = "done" /\ Len(calls) = 5
    /\ calls[2].wire # "ok"
    /\ calls[4].wire # "ok"

\* C12: every tool invocation eventually returns, also when a provider
\* never answers, because every provider call has a bounded timeout.
C12_EveryInvocationReturns == (op # "none") ~> (pc = "responded")

\* C14: every invocation, of a known or an unknown tool, also one whose API
\* method raised, gets exactly one response, a list of one text, and no
\* exception leaves handle_call_tool; before that there is no response.
C14_OneResponseNoException ==
    /\ pc = "responded" =>
          /\ response.kind = "return"
          /\ Len(response.content) = 1
    /\ pc # "responded" => response = [kind |-> "pending"]

\* The API method raised and the invocation was answered all the same.
C14_Witness ==
    /\ pc = "responded"
    /\ result.kind = "raise"
    /\ response.kind = "return"

\* The community requests of the current lookup, in the order sent.
TraktCalls == SelectSeq(calls, LAMBDA c : c.provider = "trakt")

\* C13: once the base record exists, get_enhanced_movie_with_trakt sends the
\* stats, comments and similar requests, each once, and returns the record
\* whatever subset of them failed; a failed request degrades its own field
\* only (stats None, comments [], similar []), the other fields carry what
\* their requests returned and the base record is unchanged.
C13_CommunityFailuresDegradeOwnField ==
    (op = "trakt" /\ pc = "done" /\ enhanced.kind = "dict") =>
        /\ Len(TraktCalls) = 3
        /\ TraktCalls[1].endpoint = "/movies/{id}/stats"
        /\ TraktCalls[2].endpoint = "/movies/{id}/comments"
        /\ TraktCalls[3].endpoint = "/movies/{id}/related"
        /\ result.kind = "dict"
        /\ \A k \in DOMAIN enhanced.value :
              result.value[k] = enhanced.value[k]
        /\ LET td == result.value.trakt_data
           IN  /\ td.stats = IF TraktCalls[1].wire = "ok"
                             THEN TraktCalls[1].ret ELSE None
               /\ td.user_comments = IF TraktCalls[2].wire = "ok"
                                     THEN TraktCalls[2].ret.items ELSE <<>>
               /\ td.similar_movies = IF TraktCalls[3].wire = "ok"
                                      THEN TraktCalls[3].ret.items ELSE <<>>

\* The stats and the similar request failed, the comments request did not.
C13_Witness ==
    /\ op = "trakt" /\ pc = "done" /\ enhanced.kind = "dict"
    /\ TraktCalls[1].wire # "ok"
    /\ TraktCalls[2].wire = "ok" /\ TraktCalls[2].ret.items # <<>>
    /\ TraktCalls[3].wire # "ok"
    /\ result.value.trakt_data.user_comments # <<>>

\* analyze_movie_vibe has returned its analysis of a record.
Analyzed == op = "analyze" /\ pc = "done" /\ enhanced.kind = "dict"

\* The award texts that name an Oscar or an Emmy.
NamesOscarOrEmmy == {"Won 2 Oscars. 160 wins total",
                     "Won 3 Primetime Emmys. 12 wins total"}

\* C20: the mood profile is that of the first rule that matches.  Awards
\* naming an Oscar or an Emmy give "Prestige entertainment" for an audience
\* score of 7.5 or more and "Acclaimed but challenging" below, whatever the
\* genres; otherwise Comedy, Horror and Action are tried in this order, then
\* a Metacritic score of 75 or more, then the default.
C20_MoodProfileFirstMatch ==
    Analyzed =>
        LET r == enhanced.value.enhanced_ratings
            g == {tmdb_data.genres[i].name : i \in 1..Len(tmdb_data.genres)}
            prestige == /\ omdb_data # None
                        /\ omdb_data.Awards \in NamesOscarOrEmmy
            comedy == "Comedy" \in g /\ r.imdb >= 70
            horror == "Horror" \in g /\ r.rotten_tomatoes >= 80
            action == "Action" \in g /\ r.rotten_tomatoes > r.imdb
            critic == r.metacritic >= 75
            mood   == result.value.mood_profile
        IN  /\ (prestige /\ r.imdb >= 75) => mood = "Prestige entertainment"
            /\ (prestige /\ r.imdb < 75) =>
                  mood = "Acclaimed but challenging"
            /\ (~prestige /\ comedy) => mood = "Feel-good entertainment"
            /\ (~prestige /\ ~comedy /\ horror) => mood = "Smart scary"
            /\ (~prestige /\ ~comedy /\ ~horror /\ action) =>
                  mood = "Stylish thrills"
            /\ (~prestige /\ ~comedy /\ ~horror /\ ~action /\ critic) =>
                  mood = "Thoughtful and rewarding"
            /\ (~prestige /\ ~comedy /\ ~horror /\ ~action /\ ~critic) =>
                  mood = "Solid entertainment"

\* An Oscar winner that is also a comedy the audience likes: the awards
\* rule decides.
C20_Witness ==
    /\ Analyzed
    /\ omdb_data # None
    /\ omdb_data.Awards = "Won 2 Oscars. 160 wins total"
    /\ "Comedy" \in GenreNames(tmdb_data)
    /\ enhanced.value.enhanced_ratings.imdb >= 75
    /\ result.value.mood_profile = "Prestige entertainment"

\* The filter of find_rating_personality has just decided on a candidate
\* whose enrichment gave a record; omdb_data is that candidate's payload.
PersonalityDecided ==
    /\ op = "personality" /\ pc \in {"primary", "done"}
    /\ decided # None /\ enhanced.kind = "dict"

\* C18: the gap constraints are inclusive at K = 1.5.  Under critics_darling
\* a title with critic/10 - audience >= 1.5 (and its other constraint,
\* Metacritic >= 75) matches, under crowd_pleaser a title with
\* audience - critic/10 >= 1.5 (and audience >= 7.5) matches, a gap of
\* exactly 1.5 included; a title whose gap is below 1.5 never matches.
C18_GapInclusiveAtK ==
    (PersonalityDecided
     /\ args.personality_type \in {"critics_darling", "crowd_pleaser"}
     /\ TrueImdb(omdb_data).ok /\ TrueRt(omdb_data).ok) =>
        LET audience == TrueImdb(omdb_data).v
            critic   == TrueRt(omdb_data).v
            mc       == TrueMc(omdb_data)
            darling  == args.personality_type = "critics_darling"
            gap      == IF darling THEN critic - audience
                        ELSE audience - critic
            others   == IF darling THEN mc.ok /\ mc.v >= 75
                        ELSE audience >= 75
        IN  /\ decided.accepted => gap >= 15
            /\ (gap >= 15 /\ others) => decided.accepted

\* The mood filter has just decided on a candidate; when it looked the
\* candidate up, omdb_data is that candidate's payload.
MoodDecided ==
    /\ op = "mood" /\ pc \in {"mood_filter", "done"}
    /\ decided # None /\ result.kind # "raise"

\* C15: a title get_mood_recommendations returns satisfies the constraints
\* of the profile it searched with (the mood's, after the time modifier): a
\* metacritic_min is met by the title's Metacritic score ('thoughtful':
\* 70), and rt_critics_preference by a critic score above the audience
\* score ('energetic').
C15_ReturnedTitlesMeetMoodProfile ==
    (MoodDecided /\ decided.accepted) =>
        /\ "metacritic_min" \in DOMAIN rules =>
              /\ decided.looked_up
              /\ TrueMc(omdb_data).ok
              /\ TrueMc(omdb_data).v >= rules.metacritic_min
        /\ "rt_critics_preference" \in DOMAIN rules =>
              /\ decided.looked_up
              /\ TrueRt(omdb_data).ok /\ TrueImdb(omdb_data).ok
              /\ TrueRt(omdb_data).v > TrueImdb(omdb_data).v

\* The genres of a discover entry.
TrueGenres(movie) ==
    {GenreOf(movie.genre_ids[k]) : k \in 1..Len(movie.genre_ids)}

\* The genres a rule set excludes: its exclude_genres and, with
\* light_content, Horror, War and Crime.
Excluded(rule_set) ==
    LET ex == py_get(rule_set, "exclude_genres", <<>>)
    IN  {ex[k] : k \in 1..Len(ex)}
        \cup (IF py_get(rule_set, "light_content", FALSE)
              THEN {"Horror", "War", "Crime"} ELSE {})

\* A filter that reads genre rules has just decided on a candidate.
GenreDecided ==
    /\ op \in {"mood", "vibe"}
    /\ decided # None /\ result.kind # "raise"

\* C17: no returned title has a genre of the exclusion set of the rules it
\* was searched with (exclude_genres of the mood or of the vibe modifier,
\* Horror/War/Crime under the morning modifier's light_content).
C17_NoExcludedGenreReturned ==
    (GenreDecided /\ decided.accepted) =>
        TrueGenres(decided.movie) \cap Excluded(rules) = {}

\* A filter whose rules ask for awards has just decided on a candidate.
AwardsDecided ==
    /\ \/ op = "mood" /\ pc \in {"mood_filter", "done"}
       \/ op = "personality" /\ pc \in {"primary", "done"}
    /\ decided # None /\ result.kind # "raise"
    /\ \/ py_get(rules, "awards_required", FALSE)
       \/ py_get(rules, "awards_preferred", FALSE)

\* C19: a rule that asks for awards (awards_required of
\* 'prestige_accessible', awards_preferred of 'thoughtful') is never met by
\* missing awards data: every returned title was looked up with success
\* and its awards are neither absent nor 'N/A'.
C19_AwardsNeverMetByMissingData ==
    (AwardsDecided /\ decided.accepted) =>
        /\ enhanced.kind = "dict"
        /\ omdb_data # None
        /\ py_get(omdb_data, "Awards", "N/A") # "N/A"

\* A filter that reads the scores of a record has just decided on a
\* candidate; omdb_data is that candidate's payload.
ScoresDecided ==
    /\ \/ op = "vibe" /\ pc \in {"primary", "discover", "done"}
       \/ op = "personality" /\ pc \in {"primary", "done"}
    /\ decided # None /\ result.kind # "raise"

\* The rules that need the audience score, the critic percentage, the
\* Metacritic score of a title.
AudienceRules == {"imdb_min", "imdb_audience_preference",
                  "rt_critics_preference", "rt_imdb_gap_max",
                  "rt_critics_much_higher", "imdb_much_higher"}

CriticRules == {"rt_min", "rt_max", "imdb_audience_preference",
                "rt_critics_preference", "rt_imdb_gap_max",
                "rt_critics_much_higher", "imdb_much_higher"}

MetacriticRules == {"metacritic_min"}

\* C16: a candidate fails every constraint that needs a rating field it
\* does not have, under every vibe modifier and personality rule: a title
\* is returned only if it has the audience score, the critic percentage
\* and the Metacritic score that the rules it was searched with need (under
\* 'accessible' and 'crowd_pleasing': both the critic percentage and the
\* audience score).
C16_AbsentFieldFailsConstraint ==
    (ScoresDecided /\ decided.accepted) =>
        /\ DOMAIN rules \cap AudienceRules # {} => TrueImdb(omdb_data).ok
        /\ DOMAIN rules \cap CriticRules # {} => TrueRt(omdb_data).ok
        /\ DOMAIN rules \cap MetacriticRules # {} => TrueMc(omdb_data).ok

\* C21: both scores analyze_movie_vibe returns, accessibility and prestige,
\* are integers from 1 to 10, whatever ratings the title has or lacks and
\* whatever its awards text is.
C21_ScoresWithinOneToTen ==
    Analyzed =>
        /\ result.value.accessibility_score \in 1..10
        /\ result.value.prestige_score \in 1..10

\* Every bonus of the prestige score applies (Metacritic 80, critics 95%
\* and above the audience, an Oscar): 5 + 6 is cut to 10.
C21_Witness ==
    /\ Analyzed
    /\ omdb_data # None
    /\ TrueMc(omdb_data).ok /\ TrueMc(omdb_data).v >= 80
    /\ TrueRt(omdb_data).ok /\ TrueRt(omdb_data).v >= 90
    /\ omdb_data.Awards \in NamesOscarOrEmmy
    /\ result.value.prestige_score = 10

\* C27: the vibe tags of analyze_movie_vibe are exactly the tags whose rule
\* holds, in the order cerebral, accessible, crowd-pleasing, thoughtful, and
\* a rule whose rating inputs are absent does not hold: 'accessible' needs
\* the audience score and the critic percentage, 'cerebral' and
\* 'thoughtful' the Metacritic score, 'crowd-pleasing' the audience score.
C27_VibeTagsFollowRules ==
    Analyzed =>
        LET audience == TrueImdb(omdb_data)
            critic   == TrueRt(omdb_data)
            mc       == TrueMc(omdb_data)
            g == {tmdb_data.genres[i].name : i \in 1..Len(tmdb_data.genres)}
        IN  result.value.vibe_tags =
                (IF mc.ok /\ mc.v >= 75 THEN <<"cerebral">> ELSE <<>>)
                \o (IF audience.ok /\ critic.ok /\ audience.v >= critic.v
                    THEN <<"accessible">> ELSE <<>>)
                \o (IF audience.ok /\ audience.v >= 75
                    THEN <<"crowd-pleasing">> ELSE <<>>)
                \o (IF "Drama" \in g /\ mc.ok /\ mc.v >= 70
                    THEN <<"thoughtful">> ELSE <<>>)

\* C28: every entry find_rating_mismatches returns has an analysis label
\* that fits a mismatch: for every min_mismatch from 1.0 to 5.0 no entry is
\* labelled 'Critics and audiences generally agree' or 'OMDb data not
\* available'.
C28_MismatchLabelsConsistent ==
    Listed =>
        \A e \in Entries :
            e.analysis \notin {"Critics and audiences generally agree",
                               "OMDb data not available"}

\* find_vibe_movies has sent the discover request for the genre at the head
\* of vibe.genres and waits for the answer.
GenreQueried == op = "vibe" /\ pc = "discover"

\* C29: every discover request find_vibe_movies sends for a genre of the
\* reference movie restricts the candidates to that genre: under every
\* modifier, 'cerebral' and 'challenging' with their include_genres
\* included, with_genres contains the id of the genre being searched.
C29_QueryKeepsReferenceGenre ==
    GenreQueried =>
        LET genre == Head(vibe.genres)
            with_genres == VibeParams(genre, rules).with_genres
        IN  /\ genre \in DOMAIN genre_map
            /\ \E k \in 1..Len(with_genres) :
                  with_genres[k] = genre_map[genre]

\* The keys the rule tables know.
KnownModifiers == {"accessible", "grounded", "cerebral", "crowd_pleasing",
                   "challenging"}
KnownPersonalities == {"critics_darling", "crowd_pleaser",
                       "universal_acclaim", "cult_classic",
                       "prestige_accessible"}

\* The keys of a rule that the discover request or a filter reads.
ConstraintKeys ==
    {"imdb_min", "runtime_max", "runtime_min", "release_year_max",
     "exclude_genres", "include_genres", "imdb_audience_preference",
     "rt_critics_preference", "rt_imdb_gap_max", "metacritic_min",
     "light_content", "awards_preferred", "familiar_genres",
     "rt_critics_much_higher", "imdb_much_higher", "min_gap", "rt_min",
     "rt_max", "awards_required", "age_min"}

\* find_vibe_movies has just chosen its rules from the record of the
\* reference movie: enhanced is that record and omdb_data its payload.
RulesChosen ==
    /\ op = "vibe" /\ rules # None /\ decided = None /\ enhanced # None
    /\ enhanced.kind = "dict"

\* C30: a key the rule tables do not know gets the fallback rule and no
\* failure.  An unknown vibe modifier gives the single constraint audience
\* minimum = audience score of the reference movie - 0.5; an unknown mood
\* gives the empty rule, so that the profile has at most the keys of the
\* time modifier; an unknown personality gives the empty rule, under which
\* a title is still returned only with both its audience score and its
\* critic percentage present.
C30_UnknownKeyGetsFallbackRule ==
    /\ (RulesChosen /\ args.vibe_modifier \notin KnownModifiers) =>
          /\ DOMAIN rules \cap ConstraintKeys = {"imdb_min"}
          /\ TrueImdb(omdb_data).ok =>
                rules.imdb_min = TrueImdb(omdb_data).v - 5
    /\ (op = "mood" /\ args.mood \notin KnownMoods) =>
          /\ DOMAIN rules \subseteq DOMAIN time_modifiers(args.time_context)
          /\ args.time_context = "" => rules = <<>>
    /\ (op = "personality"
        /\ args.personality_type \notin KnownPersonalities) =>
          /\ rules = <<>>
          /\ (PersonalityDecided /\ decided.accepted) =>
                TrueImdb(omdb_data).ok /\ TrueRt(omdb_data).ok

\* An unknown modifier got its rule from a reference movie with an audience
\* score.
C30_Witness ==
    /\ RulesChosen
    /\ args.vibe_modifier \notin KnownModifiers
    /\ TrueImdb(omdb_data).ok
    /\ rules.imdb_min = 67

\* C23: invocations do not block each other on upstream latency: while an
\* invocation waits for a provider's answer, another invocation a client
\* has submitted can be begun by the server.
C23_WaitingDoesNotBlockOthers ==
    (pc \in Awaiting \cup {"weather"} /\ submitted) => ENABLED Begin

VibeListed ==
    op = "vibe" /\ pc = "done" /\ result.kind = "list" /\ vibe # None

\* The place of the first movie with this id among the recommendations.
FirstPlace(id) ==
    CHOOSE k \in 1..Len(vibe.recommendations) :
        /\ vibe.recommendations[k].id = id
        /\ \A j \in 1..(k - 1) : vibe.recommendations[j].id # id

\* C26: the list find_vibe_movies returns has at most limit entries, no two
\* entries with the same id and not the reference movie's id, and its
\* titles stand in the order of their first occurrence in the results of
\* the first genre followed by those of the second.
C26_VibeListUniqueInOrder ==
    VibeListed =>
        LET list == result.value
        IN  /\ Len(list) <= args.limit
            /\ \A i, j \in 1..Len(list) : list[i].id = list[j].id => i = j
            /\ \A i \in 1..Len(list) :
                  /\ list[i].id # vibe.ref_id
                  /\ \E k \in 1..Len(vibe.recommendations) :
                        vibe.recommendations[k] = list[i]
            /\ \A i, j \in 1..Len(list) :
                  i < j => FirstPlace(list[i].id) < FirstPlace(list[j].id)

\* Both genre searches found a movie twice, one of them found the
\* reference movie, and more distinct movies were found than the limit.
C26_Witness ==
    /\ VibeListed
    /\ Len(result.value) = args.limit
    /\ \E k \in 1..Len(vibe.recommendations) :
          vibe.recommendations[k].id = vibe.ref_id
    /\ \E i, j \in 1..Len(vibe.recommendations) :
          /\ i < j
          /\ vibe.recommendations[i].id = vibe.recommendations[j].id
          /\ vibe.recommendations[i].id # vibe.ref_id
    /\ \E k \in 1..Len(vibe.recommendations) :
          /\ vibe.recommendations[k].id # vibe.ref_id
          /\ \A i \in 1..Len(result.value) :
                result.value[i].id # vibe.recommendations[k].id

\* The titles find_vibe_movies has accepted so far that it can return.
AcceptedSoFar == Unique(vibe.recommendations \o filtered, {vibe.ref_id})

\* C24: the filters stop at the requested count.  In find_vibe_movies and
\* in get_mood_recommendations no candidate is evaluated, no enrichment
\* call is outstanding and no further discover request is sent once as
\* many titles as the caller's limit have been accepted.
C24_StopsAtRequestedCount ==
    /\ (op = "vibe" /\ rules # None
        /\ pc \in {"discover", "primary", "secondary"}) =>
          Len(AcceptedSoFar) < args.limit
    /\ (op = "mood" /\ pc \in {"mood_filter", "primary", "secondary"}) =>
          Len(filtered) < args.limit

\* A discovery method that filters the candidates of a provider page.
Filtering == op \in {"mood", "personality", "vibe"}

\* C25: discovery results keep the provider's order.  The list a filter
\* builds (that of get_mood_recommendations, of find_rating_personality and
\* of each genre search of find_vibe_movies) holds candidates of the page
\* in the page's order, none twice, the candidates not yet evaluated come
\* after them, and it is returned as built; find_rating_personality
\* returns at most 15 titles.
C25_ProviderOrderKept ==
    Filtering =>
        /\ \A i, j \in 1..Len(filtered) :
              i < j => filtered[i].id < filtered[j].id
        /\ \A i \in 1..Len(filtered) : \A k \in 1..Len(todo) :
              filtered[i].id < todo[k].id
        /\ (op \in {"mood", "personality"} /\ pc = "done"
            /\ result.kind = "list" /\ decided # None) =>
              result.value = filtered
        /\ (op = "personality" /\ result.kind = "list") =>
              Len(result.value) <= 15

\* find_rating_personality returned 15 titles of a page with more titles
\* that pass its rules.
C25_Witness ==
    /\ op = "personality" /\ pc = "done" /\ result.kind = "list"
    /\ Len(result.value) = 15
    /\ todo # <<>>

====
